---- MODULE Spec2Model ----
(***************************************************************************)
(* A model of the OGR import/export translation layer of                   *)
(* src/src/gdal/ogr_file_format.cpp: the colour and symbol caches of       *)
(* OgrFileImport, the geometry importers, the clipping stage and the       *)
(* spatial reference resolver.                                             *)
(***************************************************************************)
EXTENDS Integers, Sequences, FiniteSets, TLC

VARIABLES
    \* --- OgrFileImport: document and caches --------------------------------
    map_colors,      \* Map's colour list; a MapColor* is an index into it
    map_symbols,     \* Map's symbol list; a Symbol* is an index into it
    colors,          \* QHash<QByteArray, MapColor*> colors
    point_symbols,   \* QHash<QByteArray, Symbol*> point_symbols
    line_symbols,    \* QHash<QByteArray, Symbol*> line_symbols
    area_symbols,    \* QHash<QByteArray, Symbol*> area_symbols
    text_symbols,    \* QHash<QByteArray, Symbol*> text_symbols
    \* --- OgrFileImport: coordinates and counters ---------------------------
    to_map_coord,    \* the member function pointer: "fromProjected" or "fromDrawing"
    georef,          \* the map's georeferencing
    empty_geometries,
    no_transformation,
    failed_transformation,
    unsupported_geometry_type,
    too_few_coordinates,
    unit_type,       \* "UnitOnGround" or "UnitOnPaper"
    clip_layers,     \* the "Clip layers" option
    driver_name,     \* OGR_Dr_GetName of the data source's driver
    data_srs,        \* the SRS the current transformation was built for
    data_transform,  \* the transformation from data_srs to map_srs
    applied,         \* the pairs of SRS and transformation OGR_G_Transform was called with
    map_srs,         \* the SRS of the map
    map_part,        \* the objects of the map part
    templates,       \* number of templates added to the map
    data_source,     \* the layers of the data source: SRS and features
    warnings,        \* number of warnings added
    \* --- importImplementation ---------------------------------------------
    lpos,            \* index of the layer the loop over the layers is at
    fpos,            \* index of the feature the loop over the features is at
    import_result,          \* "none", or how importImplementation ended
    reported,        \* the counters a warning was added for, in order
    attempted,       \* the features the loop of importLayer has reached
    separate_layers, \* the option "Separate layers"
    part_names,      \* the names of the parts of the map; the last is the current part
    layer_parts,     \* for every layer importLayer was called for: its part
    \* --- OgrFileExport -----------------------------------------------------
    format_id,       \* the id the exporter was constructed with
    driver_id,       \* OgrFileExport::id: the name of the driver, or nullptr
    quirks,          \* the set of the quirks of the driver
    transformation,  \* the transformation to WGS84, or none
    po_ds,           \* "none", "failed" (not created) or "created"
    symbol_field,    \* the name of the field of the symbol name
    o_name_field,    \* the definition of the name field, or nullptr
    po_features,     \* the features created in the layer
    export_pc,       \* "idle", "ready" (layers are written), "failed" or "done"
    thrown,          \* the FileFormatException thrown, or "none"
    per_symbol_layers, \* the option "Per Symbol Layers"
    export_symbols,  \* the vector symbols of exportImplementation
    layer_pos,       \* the number of createLayer calls made
    po_layers,       \* the layers created in the data source, with their features
    \* --- importLayer -------------------------------------------------------
    pc,              \* "idle", "layer" (reading features) or "done"
    cur_layer,       \* the layer being imported
    clipping,        \* the layer's clipping boundary, or none
    \* --- observation of the calls made so far ------------------------------
    ncalls,          \* number of operations performed (bounded)
    sym_ret,         \* (type, style string) -> set of symbols getSymbol returned
    sym_added,       \* (type, style string) -> symbols added to the map by those calls
    sym_tool,        \* symbol -> the style tool it was created from
    col_ret,         \* colour string -> set of results makeColor returned
    col_calls,       \* colour string -> number of makeColor calls
    last,            \* the last getSymbol call: key, result, the result's state before
    nimports,        \* number of importGeometry calls performed (bounded)
    last_geom,       \* the last importGeometry call: feature, objects, counters before
    nfeatures,       \* number of features read (bounded)
    last_feature     \* the last importFeature call: objects, clipped objects

symvars == << map_colors, map_symbols, colors, point_symbols, line_symbols,
              area_symbols, text_symbols >>
obsvars == << ncalls, sym_ret, sym_added, sym_tool, col_ret, col_calls, last >>
cntvars == << empty_geometries, no_transformation, failed_transformation,
              unsupported_geometry_type, too_few_coordinates >>
geovars == << to_map_coord, georef >>
srsvars == << data_srs, data_transform, applied, map_srs >>
cfgvars == << unit_type, clip_layers, driver_name >>
docvars == << map_part, templates >>
dsvars == << data_source, warnings >>
expvars == << format_id, driver_id, quirks, transformation, po_ds, symbol_field,
              o_name_field, po_features, export_pc, thrown, per_symbol_layers,
              export_symbols, layer_pos, po_layers >>
partvars == << separate_layers, part_names, layer_parts >>
runvars == << lpos, fpos, import_result, reported, attempted, partvars >>
layvars == << pc, cur_layer, clipping >>
impvars == << nimports, last_geom >>
featvars == << nfeatures, last_feature >>

----------------------------------------------------------------------------
(* Bounds of the model. *)
MaxCalls == 3
\* importGeometry calls in one behaviour.
MaxImports == 2
\* Points of a line string of the data source.
MaxPoints == 3
\* Hole rings of a polygon of the data source.
MaxHoles == 2
\* Features read from a layer.
MaxFeatures == 2
\* Layers of a data source.
MaxLayers == 3
\* Layers of a data source which is imported.
MaxImportLayers == 2
\* The largest anchor of a label tool; OGR documents 1 to 12.
MaxAnchor == 15

----------------------------------------------------------------------------
(* Pointers and strings. *)

\* nullptr of a Symbol* or MapColor*.
Null == 0
\* The null char* returned by OGR_ST_GetParamStr when a parameter is unset.
NullStr == "<null>"
\* is_null of OGR_ST_GetParamDbl / OGR_ST_GetParamNum.
NullNum == -1

\* A null text: texts are sequences of characters.
NullText == << "<null>" >>

\* qstrlen(nullptr) is 0 and QByteArray::append(nullptr) appends nothing.
Bytes(s) == IF s = NullStr THEN "" ELSE s

----------------------------------------------------------------------------
(* Symbols and colours of a map, and the style strings makeStyleString      *)
(* writes for them.  Texts are sequences of characters.                     *)

\* TextSymbol's font size (mm) before any scaling.
DefaultFontSize == 4

\* A LineSymbolBorder: its colour, its width and its shift in 1/1000 mm,
\* and whether it is dashed.
NoBorder == [color |-> Null, width |-> 0, shift |-> 0, dashed |-> FALSE]

NoSymbol == [type |-> "NoSymbol", color |-> Null, hidden |-> FALSE, helper |-> FALSE,
             description |-> << >>, parts |-> << >>,
             has_border |-> FALSE, border |-> NoBorder, right_border |-> NoBorder,
             width |-> 0, cap |-> "Flat", join |-> "Miter", dashed |-> FALSE,
             dash_length |-> 0, break_length |-> 0, font_size |-> 0]

InitColors ==
    << [name |-> "Purple", rgb |-> <<166, 38, 255>>],
       [name |-> "Purple 40%", rgb |-> <<184, 82, 255>>] >>

\* The decimal digits.
Digit(n) ==
    CASE n = 0 -> "0" [] n = 1 -> "1" [] n = 2 -> "2" [] n = 3 -> "3" [] n = 4 -> "4"
      [] n = 5 -> "5" [] n = 6 -> "6" [] n = 7 -> "7" [] n = 8 -> "8" [] n = 9 -> "9"

\* QString::number(n) for a non-negative whole number.
RECURSIVE NumberInt(_)
NumberInt(n) ==
    IF n < 10 THEN << Digit(n) >> ELSE NumberInt(n \div 10) \o << Digit(n % 10) >>

\* The hexadecimal digits of QColor::name.
HexDigit(n) ==
    CASE n < 10 -> Digit(n)
      [] n = 10 -> "a" [] n = 11 -> "b" [] n = 12 -> "c"
      [] n = 13 -> "d" [] n = 14 -> "e" [] n = 15 -> "f"

Hex2(n) == << HexDigit(n \div 16), HexDigit(n % 16) >>

\* QColor(rgb).name(QColor::HexArgb): "#AARRGGBB" of an opaque colour.
HexArgb(rgb) == << "#" >> \o Hex2(255) \o Hex2(rgb[1]) \o Hex2(rgb[2]) \o Hex2(rgb[3])

\* The text left as it is.
RotateNone(s) == s

\* std::rotate(first, middle, last) with first = s.begin() + 1 and
\* middle = s.begin() + 3: the element at middle becomes the one at first.
RotateAlpha(s) == SubSeq(s, 1, 1) \o SubSeq(s, 4, Len(s)) \o SubSeq(s, 2, 3)

\* toRgbString: "#RRGGBBAA".
toRgbString(color) == RotateAlpha(HexArgb(color.rgb))

\* The digits of a fraction of thousandths without the zeros at its end.
FractionDigits(n) ==
    IF n % 10 # 0 THEN << Digit(n \div 100), Digit((n \div 10) % 10), Digit(n % 10) >>
    ELSE IF n % 100 # 0 THEN << Digit(n \div 100), Digit((n \div 10) % 10) >>
    ELSE << Digit(n \div 100) >>

\* QByteArray::number(w / 1000.0) of a whole w of up to six digits.
NumberThousandths(w) ==
    NumberInt(w \div 1000)
    \o (IF w % 1000 = 0 THEN << >> ELSE << "." >> \o FractionDigits(w % 1000))

\* QByteArray::number(-priority), the priority of a colour being its
\* position in the list of the map.
NumberPriority(color) == IF color = 1 THEN << "0" >> ELSE << "-" >> \o NumberInt(color - 1)

\* TextSymbol::getFontFamily.
FontFamily == << "S", "a", "n", "s" >>

\* The placeholder of the text of a label.
NamePlaceholder == << "{", "N", "a", "m", "e", "}" >>

\* makeStyleString(const PointSymbol*), the dominant colour of a symbol of
\* one colour being that colour.
makePointStyleString(cols, sym) ==
    IF sym.color = Null THEN << >>
    ELSE << "S", "Y", "M", "B", "O", "L", "(", "i", "d", ":", "\"",
            "o", "g", "r", "-", "s", "y", "m", "-", "0", "\"" >>
         \o << ",", "c", ":" >> \o toRgbString(cols[sym.color])
         \o << ",", "l", ":" >> \o NumberPriority(sym.color)
         \o << ")" >>

\* The part of a line symbol's main line, empty without colour or width.
MainLinePart(cols, sym) ==
    IF sym.color = Null \/ sym.width = 0 THEN << >>
    ELSE << "P", "E", "N", "(", "c", ":" >> \o toRgbString(cols[sym.color])
         \o << ",", "w", ":" >> \o NumberThousandths(sym.width) \o << "m", "m" >>
         \o (IF sym.dashed
             THEN << ",", "p", ":", "\"", "2", "m", "m", " ", "1", "m", "m", "\"" >>
             ELSE << >>)
         \o << ",", "l", ":" >> \o NumberPriority(sym.color)
         \o << ")", ";" >>

\* The part written when the style is still empty: a pen of one point.
FallbackLinePart(cols, sym) ==
    IF sym.color = Null THEN << >>
    ELSE << "P", "E", "N", "(", "c", ":" >> \o toRgbString(cols[sym.color])
         \o << ",", "w", ":", "1", "p", "t" >>
         \o << ",", "l", ":" >> \o NumberPriority(sym.color)
         \o << ")" >>

\* style.endsWith(';') ? style.chop(1).
ChopSemicolon(style) ==
    IF Len(style) > 0 /\ style[Len(style)] = ";" THEN SubSeq(style, 1, Len(style) - 1)
    ELSE style

\* LineSymbolBorder::isVisible.
IsVisible(border) == border.width > 0 /\ border.color # Null

\* QByteArray::number(v / 1000.0) of a whole v of either sign.
NumberSignedThousandths(v) ==
    IF v < 0 THEN << "-" >> \o NumberThousandths(-v) ELSE NumberThousandths(v)

\* The part of a visible border, dp being the shift with its sign.
BorderPart(cols, border, dp) ==
    IF ~IsVisible(border) THEN << >>
    ELSE << "P", "E", "N", "(", "c", ":" >> \o toRgbString(cols[border.color])
         \o << ",", "w", ":" >> \o NumberThousandths(border.width) \o << "m", "m" >>
         \o << ",", "d", "p", ":" >> \o NumberSignedThousandths(dp) \o << "m", "m" >>
         \o << ",", "l", ":" >> \o NumberPriority(border.color)
         \o (IF border.dashed
             THEN << ",", "p", ":", "\"", "2", "m", "m", " ", "1", "m", "m", "\"" >>
             ELSE << >>)
         \o << ")", ";" >>

\* The parts of the borders of a line symbol which take the values of each
\* side from the border of that side.
BorderPartsOfEachSide(cols, sym) ==
    IF ~sym.has_border THEN << >>
    ELSE BorderPart(cols, sym.border, -sym.border.shift)
         \o BorderPart(cols, sym.right_border, sym.right_border.shift)

\* The parts of the borders of a line symbol: left_border and right_border
\* are both line_symbol->getBorder().
BorderParts(cols, sym) ==
    IF ~sym.has_border THEN << >>
    ELSE BorderPart(cols, sym.border, -sym.border.shift)
         \o BorderPart(cols, sym.border, sym.border.shift)

\* The style of a line symbol before the last semicolon is chopped.
LineStyle(main, borders, fallback) ==
    IF main \o borders = << >> THEN fallback ELSE main \o borders

\* makeStyleString(const LineSymbol*).
makeLineStyleString(cols, sym) ==
    ChopSemicolon(LineStyle(MainLinePart(cols, sym), BorderParts(cols, sym),
                            FallbackLinePart(cols, sym)))

\* makeStyleString(const AreaSymbol*) of an area symbol without fill patterns.
makeAreaStyleString(cols, sym) ==
    ChopSemicolon(IF sym.color = Null THEN << >>
                  ELSE << "B", "R", "U", "S", "H", "(", "f", "c", ":" >>
                       \o toRgbString(cols[sym.color])
                       \o << ",", "l", ":" >> \o NumberPriority(sym.color)
                       \o << ")", ";" >>)

\* makeStyleString(const TextSymbol*).
makeTextStyleString(cols, sym) ==
    << "L", "A", "B", "E", "L", "(", "c", ":" >> \o toRgbString(cols[sym.color])
    \o << ",", "f", ":", "\"" >> \o FontFamily \o << "\"" >>
    \o << ",", "s", ":" >> \o NumberInt(sym.font_size) \o << "m", "m" >>
    \o << ",", "t", ":", "\"" >> \o NamePlaceholder \o << "\"" >>
    \o << ")" >>

\* The loop of makeStyleString(const CombinedSymbol*) from part i down to
\* the first: the style of a line or area part and a semicolon; nothing for
\* a point or text part.  The parts of a combined symbol are the symbols
\* themselves.
RECURSIVE CombinedParts(_, _, _)
CombinedParts(cols, parts, i) ==
    IF i = 0 THEN << >>
    ELSE (CASE parts[i].type = "Line" -> makeLineStyleString(cols, parts[i]) \o << ";" >>
            [] parts[i].type = "Area" -> makeAreaStyleString(cols, parts[i]) \o << ";" >>
            [] parts[i].type = "Combined" ->
                   ChopSemicolon(CombinedParts(cols, parts[i].parts, Len(parts[i].parts)))
                   \o << ";" >>
            [] OTHER -> << >>)
         \o CombinedParts(cols, parts, i - 1)

\* makeStyleString(const CombinedSymbol*).
makeCombinedStyleString(cols, sym) ==
    ChopSemicolon(CombinedParts(cols, sym.parts, Len(sym.parts)))

\* makeStyleString(const Symbol*): the overload of the symbol's type.
makeStyleString(cols, sym) ==
    CASE sym.type = "Point" -> makePointStyleString(cols, sym)
      [] sym.type = "Line"  -> makeLineStyleString(cols, sym)
      [] sym.type = "Area"  -> makeAreaStyleString(cols, sym)
      [] sym.type = "Text"  -> makeTextStyleString(cols, sym)
      [] sym.type = "Combined" -> makeCombinedStyleString(cols, sym)

----------------------------------------------------------------------------
(* OGR style tools.  A style string is a list of tools (parts); a tool has  *)
(* a class and named parameters.  OGR_ST_GetStyleString(tool) is the text   *)
(* of that one tool.                                                        *)

IsDigit(c) == c \in {"0", "1", "2", "3", "4", "5", "6", "7", "8", "9"}

DigitValue(c) ==
    CASE c = "0" -> 0 [] c = "1" -> 1 [] c = "2" -> 2 [] c = "3" -> 3 [] c = "4" -> 4
      [] c = "5" -> 5 [] c = "6" -> 6 [] c = "7" -> 7 [] c = "8" -> 8 [] c = "9" -> 9

\* The value of a sequence of digits.
RECURSIVE DigitsValue(_)
DigitsValue(s) ==
    IF Len(s) = 0 THEN 0
    ELSE 10 * DigitsValue(SubSeq(s, 1, Len(s) - 1)) + DigitValue(s[Len(s)])

\* The strings of parameters the model reads, and their characters.
ParamStrings == { "#FF0000", "#FF000012", "#00FF0000", "red", "#a626ffff", "#b852ffff", "#ffa626ff", "#ffb852ff", "2mm 1mm", "4", "12" }

StringChars(s) ==
    CASE s = "#FF0000" -> << "#", "F", "F", "0", "0", "0", "0" >>
      [] s = "#FF000012" -> << "#", "F", "F", "0", "0", "0", "0", "1", "2" >>
      [] s = "#00FF0000" -> << "#", "0", "0", "F", "F", "0", "0", "0", "0" >>
      [] s = "red" -> << "r", "e", "d" >>
      [] s = "#a626ffff" -> << "#", "a", "6", "2", "6", "f", "f", "f", "f" >>
      [] s = "#b852ffff" -> << "#", "b", "8", "5", "2", "f", "f", "f", "f" >>
      [] s = "#ffa626ff" -> << "#", "f", "f", "a", "6", "2", "6", "f", "f" >>
      [] s = "#ffb852ff" -> << "#", "f", "f", "b", "8", "5", "2", "f", "f" >>
      [] s = "2mm 1mm" -> << "2", "m", "m", " ", "1", "m", "m" >>
      [] s = "4" -> << "4" >>
      [] s = "12" -> << "1", "2" >>
      [] OTHER -> << >>

\* The string of a sequence of characters; a text that is none of the
\* strings above stands for itself as "<other>".
AsString(chars) ==
    IF \E s \in ParamStrings : StringChars(s) = chars
    THEN CHOOSE s \in ParamStrings : StringChars(s) = chars
    ELSE "<other>"

\* The index of the first c in s at or after i that is outside quotation
\* marks, Len(s) + 1 when there is none.
RECURSIVE FindOutside(_, _, _, _)
FindOutside(s, c, i, quoted) ==
    IF i > Len(s) THEN i
    ELSE IF s[i] = "\"" THEN FindOutside(s, c, i + 1, ~quoted)
    ELSE IF ~quoted /\ s[i] = c THEN i
    ELSE FindOutside(s, c, i + 1, quoted)

\* The pieces of s between the separators c outside quotation marks.
RECURSIVE SplitOutside(_, _)
SplitOutside(s, c) ==
    IF Len(s) = 0 THEN << >>
    ELSE << SubSeq(s, 1, FindOutside(s, c, 1, FALSE) - 1) >>
         \o SplitOutside(SubSeq(s, FindOutside(s, c, 1, FALSE) + 1, Len(s)), c)

\* OGR_SM_GetPart: the texts of the tools of a style string.
StyleParts(style) == SplitOutside(style, ";")

\* The class name of a tool text, and the parameters in its parentheses.
PartName(part) == SubSeq(part, 1, FindOutside(part, "(", 1, FALSE) - 1)
PartParams(part) ==
    SplitOutside(SubSeq(part, FindOutside(part, "(", 1, FALSE) + 1,
                        FindOutside(part, ")", 1, FALSE) - 1), ",")

\* OGR_ST_GetType.
PartClass(part) ==
    CASE PartName(part) = << "P", "E", "N" >> -> "Pen"
      [] PartName(part) = << "B", "R", "U", "S", "H" >> -> "Brush"
      [] PartName(part) = << "S", "Y", "M", "B", "O", "L" >> -> "Symbol"
      [] PartName(part) = << "L", "A", "B", "E", "L" >> -> "Label"
      [] OTHER -> "None"

\* The text after "name:" of the first parameter with that name, without
\* quotation marks around it; NullText when the parameter is not set.
RECURSIVE ParamText(_, _)
ParamText(params, name) ==
    IF Len(params) = 0 THEN NullText
    ELSE IF SubSeq(params[1], 1, FindOutside(params[1], ":", 1, FALSE)) = name \o << ":" >>
    THEN SelectSeq(SubSeq(params[1], Len(name) + 2, Len(params[1])),
                   LAMBDA c : c # "\"")
    ELSE ParamText(Tail(params), name)

\* OGR_ST_GetParamStr.
ParamStr(params, name) ==
    IF ParamText(params, name) = NullText THEN NullStr
    ELSE AsString(ParamText(params, name))

\* The number at the start of a value and the unit after it.
NumberEnd(v) ==
    IF \E i \in 1..Len(v) : ~(IsDigit(v[i]) \/ v[i] = ".")
    THEN CHOOSE i \in 1..Len(v) : /\ ~(IsDigit(v[i]) \/ v[i] = ".")
                                  /\ \A j \in 1..(i - 1) : IsDigit(v[j]) \/ v[j] = "."
    ELSE Len(v) + 1
NumberPart(v) == SubSeq(v, 1, NumberEnd(v) - 1)
UnitPart(v) == SubSeq(v, NumberEnd(v), Len(v))

\* The whole part and the hundredths of a decimal number of up to two
\* decimals.
Hundredths(n) ==
    100 * DigitsValue(SubSeq(n, 1, FindOutside(n, ".", 1, FALSE) - 1))
    + DigitsValue(SubSeq(SubSeq(n, FindOutside(n, ".", 1, FALSE) + 1, Len(n))
                         \o << "0", "0" >>, 1, 2))

\* OGR_ST_GetParamDbl of a measure, the tool's unit being OGRSTUMM: the
\* value in 1/100 mm of a measure in millimetres.
ParamHundredths(params, name) ==
    IF ParamText(params, name) = NullText THEN NullNum
    ELSE CASE UnitPart(ParamText(params, name)) = << "m", "m" >>
                -> Hundredths(NumberPart(ParamText(params, name)))

\* OGR_ST_GetParamDbl of a whole measure in millimetres.
ParamWhole(params, name) ==
    IF ParamText(params, name) = NullText THEN NullNum
    ELSE CASE UnitPart(ParamText(params, name)) = << "m", "m" >>
                -> DigitsValue(NumberPart(ParamText(params, name)))

NoTool == [type |-> "None", color |-> NullStr, width |-> NullNum, cap |-> NullStr,
           join |-> NullStr, pattern |-> NullStr, text |-> NullText, size |-> NullStr, size_num |-> NullNum,
           anchor |-> NullNum, angle |-> NullNum]

\* The tool OGR_SM_GetPart makes of a tool text, with the parameters that
\* makeStyleString writes.
ParsedTool(part) ==
    [NoTool EXCEPT
       !.type = PartClass(part),
       !.color = ParamStr(PartParams(part),
                          IF PartClass(part) = "Brush" THEN << "f", "c" >> ELSE << "c" >>),
       !.width = IF PartClass(part) = "Pen"
                 THEN ParamHundredths(PartParams(part), << "w" >>) ELSE NullNum,
       !.pattern = IF PartClass(part) = "Pen"
                   THEN ParamStr(PartParams(part), << "p" >>) ELSE NullStr,
       !.text = IF PartClass(part) = "Label"
                THEN ParamText(PartParams(part), << "t" >>) ELSE NullText,
       !.size = IF PartClass(part) = "Label" /\ ParamText(PartParams(part), << "s" >>) # NullText
                THEN AsString(NumberPart(ParamText(PartParams(part), << "s" >>)))
                ELSE NullStr,
       !.size_num = IF PartClass(part) = "Label"
                    THEN ParamWhole(PartParams(part), << "s" >>) ELSE NullNum]

\* The symbols of one solid colour and no pattern whose style strings are
\* written and read back; line widths are in micrometres.
RoundTripSymbols ==
    << [NoSymbol EXCEPT !.type = "Point", !.color = 1],
       [NoSymbol EXCEPT !.type = "Point", !.color = 2],
       [NoSymbol EXCEPT !.type = "Line", !.color = 1, !.width = 10],
       [NoSymbol EXCEPT !.type = "Line", !.color = 2, !.width = 100],
       [NoSymbol EXCEPT !.type = "Line", !.color = 1, !.width = 250],
       [NoSymbol EXCEPT !.type = "Line", !.color = 2, !.width = 1500],
       [NoSymbol EXCEPT !.type = "Area", !.color = 1],
       [NoSymbol EXCEPT !.type = "Area", !.color = 2],
       [NoSymbol EXCEPT !.type = "Text", !.color = 2, !.font_size = DefaultFontSize] >>

\* The style string written for the k-th of these symbols.
ExportedStyleString(k) == makeStyleString(InitColors, RoundTripSymbols[k])

\* Widths are in 1/100 mm, angles in degrees, font sizes in mm.
\* Label tools: a text, an anchor and an angle in whole degrees, the last
\* two with NullNum when the tool does not have the parameter.  The texts:
\* plain ones, one with a tabulator written as ^I, texts with an escape
\* sequence from a backslash to a semicolon, an empty one, the name of a
\* field in braces.
LabelTools ==
    << [text |-> << "T" >>, anchor |-> 5, angle |-> 90],
       [text |-> << "T" >>, anchor |-> NullNum, angle |-> NullNum],
       [text |-> << "^", "I", "T" >>, anchor |-> 14, angle |-> 7],
       [text |-> << "\\", "f", ";" >>, anchor |-> 2, angle |-> 0],
       [text |-> << "\\", "f", ";", "T" >>, anchor |-> 9, angle |-> 47],
       [text |-> << >>, anchor |-> 3, angle |-> 200],
       [text |-> << "{", "n", "}" >>, anchor |-> 12, angle |-> 135] >>

Tool(t) ==
    CASE t = 1 -> [NoTool EXCEPT !.type = "Pen", !.color = "#FF0000", !.width = 50,
                                 !.cap = "p", !.join = "r", !.pattern = "2mm 1mm"]
      [] t = 2 -> [NoTool EXCEPT !.type = "Pen", !.width = 1, !.pattern = "dash"]
      [] t = 3 -> [NoTool EXCEPT !.type = "Brush", !.color = "#00FF0000"]
      [] t = 4 -> [NoTool EXCEPT !.type = "Pen", !.color = "red"]
      [] t = 5 -> [NoTool EXCEPT !.type = "Label", !.text = <<"A">>, !.color = "#FF0000",
                                 !.size = "12", !.size_num = 12, !.anchor = 5,
                                 !.angle = 90]
      [] t = 6 -> [NoTool EXCEPT !.type = "Label", !.text = <<"B">>, !.color = "#FF000012"]
      [] t = 7 -> [NoTool EXCEPT !.type = "Label", !.color = "#FF0000"]
      [] t = 8 -> [NoTool EXCEPT !.type = "Symbol", !.color = "#FF0000", !.angle = 45]
      [] t = 9 -> [NoTool EXCEPT !.type = "Label", !.text = << "{", "n", "}" >>,
                                 !.color = "#FF0000"]
      [] t \in 20..(20 + MaxAnchor) ->
             [NoTool EXCEPT !.type = "Label", !.text = <<"L">>, !.color = "#FF0000",
                            !.anchor = t - 20]
      [] t \in 41..(40 + Len(RoundTripSymbols)) ->
             ParsedTool(StyleParts(ExportedStyleString(t - 40))[1])
      [] t \in 61..(60 + Len(LabelTools)) ->
             [NoTool EXCEPT !.type = "Label", !.color = "#FF0000",
                            !.text = LabelTools[t - 60].text,
                            !.anchor = LabelTools[t - 60].anchor,
                            !.angle = LabelTools[t - 60].angle]
      [] OTHER -> NoTool

\* A style string: the tools it parses to, and a variant v that tells apart
\* byte-different texts with the same tools (v = 0 is the canonical text).
Style(v, tools) == [v |-> v, tools |-> tools]
EmptyStyle == Style(0, << >>)

\* A tool key that tells tools apart by their class only.
ToolKeyByClass(t) ==
    [v |-> 0, tools |-> << CASE Tool(t).type = "Pen" -> 101
                             [] Tool(t).type = "Brush" -> 102
                             [] Tool(t).type = "Symbol" -> 103
                             [] OTHER -> 104 >>]

\* OGR_ST_GetStyleString(tool): the canonical text of the single tool.
ToolKey(t) == Style(0, << t >>)

StyleStrings ==
    { EmptyStyle, Style(0, <<1>>), Style(1, <<1>>), Style(0, <<3>>), Style(0, <<4>>),
      Style(0, <<5>>), Style(0, <<6>>), Style(0, <<7, 2, 8>>) }

\* The getSymbol calls the model makes: every style string for a point
\* geometry, and for lines and areas the strings with and without a tool of
\* their class.
Requests ==
    { <<"Point", s>> : s \in StyleStrings }
    \cup { <<"Line", s>> : s \in { Style(0, <<1>>), Style(1, <<1>>), Style(0, <<3>>),
                                   Style(0, <<4>>), Style(0, <<7, 2, 8>>) } }
    \cup { <<"Area", s>> : s \in { EmptyStyle, Style(0, <<1>>), Style(0, <<3>>) } }

\* The value of a hexadecimal digit, -1 for any other character.
HexValue(c) ==
    CASE IsDigit(c) -> DigitValue(c)
      [] c \in { "a", "A" } -> 10 [] c \in { "b", "B" } -> 11 [] c \in { "c", "C" } -> 12
      [] c \in { "d", "D" } -> 13 [] c \in { "e", "E" } -> 14 [] c \in { "f", "F" } -> 15
      [] OTHER -> -1

\* The conversion %2x of sscanf at position i of s: up to two hexadecimal
\* digits, at least one.
ScanHex2(s, i) ==
    IF i > Len(s) \/ HexValue(s[i]) < 0 THEN [ok |-> FALSE, v |-> 0, next |-> i]
    ELSE IF i + 1 <= Len(s) /\ HexValue(s[i + 1]) >= 0
    THEN [ok |-> TRUE, v |-> 16 * HexValue(s[i]) + HexValue(s[i + 1]), next |-> i + 2]
    ELSE [ok |-> TRUE, v |-> HexValue(s[i]), next |-> i + 1]

\* The components read after the first three.
ScanAlpha(s, b) ==
    [ok |-> b.ok, a |-> IF b.ok /\ ScanHex2(s, b.next).ok THEN ScanHex2(s, b.next).v ELSE 255]

\* sscanf(color, "#%2x%2x%2x%2x") of a text that starts with '#'.
ScanRGB(s, r, g, b) ==
    [ok |-> b.ok, rgb |-> IF b.ok THEN << r.v, g.v, b.v >> ELSE << 0, 0, 0 >>,
     a |-> ScanAlpha(s, b).a]

ScanBlue(s, r, g) == ScanRGB(s, r, g, IF g.ok THEN ScanHex2(s, g.next) ELSE g)
ScanGreen(s, r) == ScanBlue(s, r, IF r.ok THEN ScanHex2(s, r.next) ELSE r)

\* OGR_ST_GetRGBFromString: sscanf(color, "#%2x%2x%2x%2x"), success with at
\* least three components read, alpha 255 when there is no fourth.
GetRGBFromString(c) ==
    IF Len(StringChars(c)) > 0 /\ StringChars(c)[1] = "#"
    THEN ScanGreen(StringChars(c), ScanHex2(StringChars(c), 2))
    ELSE [ok |-> FALSE, rgb |-> << 0, 0, 0 >>, a |-> 255]

----------------------------------------------------------------------------
(* The document after OgrFileImport's constructor.                          *)

default_pen_color == 1
default_brush_color == 2
default_point_symbol == 1
default_line_symbol == 2
default_area_symbol == 3
default_text_symbol == 4
InitSymbols ==
    << [NoSymbol EXCEPT !.type = "Point", !.color = default_pen_color],
       [NoSymbol EXCEPT !.type = "Line", !.color = default_pen_color, !.width = 100],
       [NoSymbol EXCEPT !.type = "Area", !.color = default_brush_color],
       [NoSymbol EXCEPT !.type = "Text", !.color = default_pen_color,
                        !.font_size = DefaultFontSize] >>

\* An empty QHash.
EmptyHash == [k \in {} |-> Null]

\* QHash::value(key): the default-constructed value (nullptr) when absent.
Value(hash, key) == IF key \in DOMAIN hash THEN hash[key] ELSE Null

\* QHash::insert(key, value): replaces the value of an existing key.
Insert(hash, key, value) ==
    [k \in DOMAIN hash \cup {key} |-> IF k = key THEN value ELSE hash[k]]

\* The importer's mutable state, threaded through the nested calls.  mc is
\* the list of makeColor calls made, <<colour string, result>>.
Store ==
    [map_colors |-> map_colors, map_symbols |-> map_symbols, colors |-> colors,
     point_symbols |-> point_symbols, line_symbols |-> line_symbols,
     area_symbols |-> area_symbols, text_symbols |-> text_symbols,
     to_map_coord |-> to_map_coord, georef |-> georef,
     unit_type |-> unit_type, driver_name |-> driver_name,
     data_srs |-> data_srs, data_transform |-> data_transform, map_srs |-> map_srs,
     applied |-> applied,
     map_part |-> map_part, templates |-> templates,
     imported |-> << >>, clipped |-> << >>,
     owned |-> [result |-> << >>, deleted |-> << >>, failed |-> {}],
     empty_geometries |-> empty_geometries, no_transformation |-> no_transformation,
     failed_transformation |-> failed_transformation,
     unsupported_geometry_type |-> unsupported_geometry_type,
     too_few_coordinates |-> too_few_coordinates,
     created |-> << >>, mc |-> << >>, built |-> 0]

----------------------------------------------------------------------------
(* Colour cache.                                                            *)

\* The colour makeColor answers on a cache miss: the default pen colour
\* when the string does not parse, a new colour when it parses with a
\* positive alpha, nullptr when it parses with alpha 0.
NewColorNullOnFailure(st, p) ==
    IF p.ok /\ p.a > 0 THEN Len(st.map_colors) + 1 ELSE Null

NewColor(st, p) ==
    IF ~p.ok THEN default_pen_color
    ELSE IF p.a > 0 THEN Len(st.map_colors) + 1
    ELSE Null

\* makeColor once the cache has been read and the string parsed, without
\* the insertion into the cache.
makeColorUncached(st, key, cached, p) ==
    [st |-> [st EXCEPT !.map_colors = IF p.ok /\ p.a > 0
                                      THEN Append(@, [name |-> key, rgb |-> p.rgb])
                                      ELSE @,
                       !.mc = Append(@, <<key, NewColor(st, p)>>)],
     ret |-> NewColor(st, p)]

\* makeColor once the cache has been read and the string parsed: on a miss
\* the colour is added to the map if it is new, and the result is cached
\* under the colour string, nullptr included.
makeColorParsed(st, key, cached, p) ==
    LET color == IF cached # Null THEN cached ELSE NewColor(st, p)
    IN  [st |-> [st EXCEPT !.map_colors = IF cached = Null /\ p.ok /\ p.a > 0
                                          THEN Append(@, [name |-> key, rgb |-> p.rgb])
                                          ELSE @,
                           !.colors = IF cached = Null THEN Insert(@, key, color) ELSE @,
                           !.mc = Append(@, <<key, color>>)],
         ret |-> color]

\* OgrFileImport::makeColor.
makeColor(st, color_string) ==
    makeColorParsed(st, Bytes(color_string), Value(st.colors, Bytes(color_string)),
                    GetRGBFromString(color_string))

\* The nullptr branch shared by applyPenColor, applyBrushColor,
\* getSymbolForOgrSymbol and getSymbolForLabel: set the colour, or hide.
SetColorOrHide(sym, color) ==
    IF color # Null THEN [sym EXCEPT !.color = color]
    ELSE [sym EXCEPT !.hidden = TRUE]

\* The symbol under construction after makeColor returned c.
Colored(c, sym) == [st |-> c.st, sym |-> SetColorOrHide(sym, c.ret)]

\* OgrFileImport::applyPenColor / applyBrushColor.
applyColor(st, t, sym) ==
    IF Tool(t).color = NullStr
    THEN [st |-> st, sym |-> sym]
    ELSE Colored(makeColor(st, Tool(t).color), sym)

\* applyPenWidth: widths up to 0.01 mm become 0.1 mm; stored in micrometres.
applyPenWidth(t, sym) ==
    IF Tool(t).width = NullNum THEN sym
    ELSE [sym EXCEPT !.width = 10 * (IF Tool(t).width <= 1 THEN 10 ELSE Tool(t).width)]

\* applyPenCap: 'p' (projecting) is square, 'r' is round.
applyPenCap(t, sym) ==
    CASE Tool(t).cap = "p" -> [sym EXCEPT !.cap = "Square"]
      [] Tool(t).cap = "r" -> [sym EXCEPT !.cap = "Round"]
      [] OTHER -> sym

\* applyPenJoin: 'b' is bevel, 'r' is round.
applyPenJoin(t, sym) ==
    CASE Tool(t).join = "b" -> [sym EXCEPT !.join = "Bevel"]
      [] Tool(t).join = "r" -> [sym EXCEPT !.join = "Round"]
      [] OTHER -> sym

\* applyPenPattern: "<num><unit> <num><unit>" makes the line dashed, lengths
\* in micrometres and at least 100; anything else is ignored.
applyPenPattern(t, sym) ==
    IF Tool(t).pattern = "2mm 1mm"
    THEN [sym EXCEPT !.dashed = TRUE, !.dash_length = 2000, !.break_length = 1000]
    ELSE sym

----------------------------------------------------------------------------
(* Symbol caches.                                                           *)

\* map->addSymbol(symbol, map->getNumSymbols()), remembering the tool.
addSymbol(st, sym, t) ==
    [st EXCEPT !.map_symbols = Append(@, sym),
               !.created = Append(@, <<Len(st.map_symbols) + 1, t>>)]

\* A registration that forgets the style string when it is the tool's text.
RegisterToolKeyOnly(hash, style_string, tool_key, symbol) ==
    IF style_string # tool_key THEN Insert(hash, tool_key, symbol) ELSE hash

\* The registration shared by getSymbolForPen, getSymbolForBrush and
\* getSymbolForOgrSymbol: under the style string and, when it differs,
\* under the tool's own text.
Register(hash, style_string, tool_key, symbol) ==
    IF style_string # tool_key
    THEN Insert(Insert(hash, style_string, symbol), tool_key, symbol)
    ELSE Insert(hash, style_string, symbol)

\* The cache-miss part of getSymbolForPen, c being the duplicate of the
\* default line symbol after applyPenColor.
PenCreate(c, t, style_string) ==
    [st |-> addSymbol([c.st EXCEPT !.line_symbols =
                           Register(@, style_string, ToolKey(t),
                                    Len(c.st.map_symbols) + 1)],
                      applyPenPattern(t, applyPenJoin(t, applyPenCap(t,
                          applyPenWidth(t, c.sym)))),
                      t),
     ret |-> Len(c.st.map_symbols) + 1]

\* OgrFileImport::getSymbolForPen.
getSymbolForPen(st, t, style_string) ==
    IF /\ Value(st.line_symbols, ToolKey(t)) # Null
       /\ st.map_symbols[Value(st.line_symbols, ToolKey(t))].type = "Line"
    THEN [st |-> st, ret |-> Value(st.line_symbols, ToolKey(t))]
    ELSE PenCreate(applyColor(st, t, st.map_symbols[default_line_symbol]),
                   t, style_string)

\* The cache-miss part of getSymbolForBrush.
BrushCreate(c, t, style_string) ==
    [st |-> addSymbol([c.st EXCEPT !.area_symbols =
                           Register(@, style_string, ToolKey(t),
                                    Len(c.st.map_symbols) + 1)],
                      c.sym, t),
     ret |-> Len(c.st.map_symbols) + 1]

\* OgrFileImport::getSymbolForBrush.
getSymbolForBrush(st, t, style_string) ==
    IF /\ Value(st.area_symbols, ToolKey(t)) # Null
       /\ st.map_symbols[Value(st.area_symbols, ToolKey(t))].type = "Area"
    THEN [st |-> st, ret |-> Value(st.area_symbols, ToolKey(t))]
    ELSE BrushCreate(applyColor(st, t, st.map_symbols[default_area_symbol]),
                     t, style_string)

\* QString::number(angle, 'f', 2) for a whole angle.
NumberF2(angle) ==
    (IF angle < 0 THEN << "-" >> ELSE << >>)
    \o NumberInt(IF angle < 0 THEN -angle ELSE angle) \o << ".", "0", "0" >>

\* The cache-miss part of getSymbolForOgrSymbol: the symbol is registered
\* and added, and a symbol tool's angle becomes its description.
OgrSymbolCreate(c, t, style_string) ==
    [st |-> addSymbol([c.st EXCEPT !.point_symbols =
                           Register(@, style_string, ToolKey(t),
                                    Len(c.st.map_symbols) + 1)],
                      IF Tool(t).type = "Symbol" /\ Tool(t).angle # NullNum
                      THEN [c.sym EXCEPT !.description = NumberF2(Tool(t).angle)]
                      ELSE c.sym,
                      t),
     ret |-> Len(c.st.map_symbols) + 1]

\* OgrFileImport::getSymbolForOgrSymbol: a point symbol from a brush, pen or
\* symbol tool; nullptr when the tool has no colour parameter.
getSymbolForOgrSymbol(st, t, style_string) ==
    IF /\ Value(st.point_symbols, ToolKey(t)) # Null
       /\ st.map_symbols[Value(st.point_symbols, ToolKey(t))].type = "Point"
    THEN [st |-> st, ret |-> Value(st.point_symbols, ToolKey(t))]
    ELSE IF Tool(t).type \notin {"Brush", "Pen", "Symbol"} \/ Tool(t).color = NullStr
    THEN [st |-> st, ret |-> Null]
    ELSE OgrSymbolCreate(Colored(makeColor(st, Tool(t).color),
                                 st.map_symbols[default_point_symbol]),
                         t, style_string)

\* QString::number(100 + anchor).
NumberAnchor(anchor) == NumberInt(100 + anchor)

\* 10^e.
RECURSIVE Pow10(_)
Pow10(e) == IF e = 0 THEN 1 ELSE 10 * Pow10(e - 1)

\* QString::number(angle, 'g', 1) for a non-negative whole angle: one
\* significant digit, in exponent form from 10 on.
NumberG1(angle) ==
    IF angle < 10 THEN << Digit(angle) >>
    ELSE IF (2 * angle + Pow10(Len(NumberInt(angle)) - 1))
                \div (2 * Pow10(Len(NumberInt(angle)) - 1)) = 10
    THEN << "1", "e", "+" >> \o (IF Len(NumberInt(angle)) < 10 THEN << "0" >> ELSE << >>)
         \o NumberInt(Len(NumberInt(angle)))
    ELSE << Digit((2 * angle + Pow10(Len(NumberInt(angle)) - 1))
                    \div (2 * Pow10(Len(NumberInt(angle)) - 1))), "e", "+" >>
         \o (IF Len(NumberInt(angle)) - 1 < 10 THEN << "0" >> ELSE << >>)
         \o NumberInt(Len(NumberInt(angle)) - 1)

\* A qBound which leaves the value as it is.
qBoundNone(lo, v, hi) == v

\* qBound(lo, v, hi).
qBound(lo, v, hi) == IF v < lo THEN lo ELSE IF v > hi THEN hi ELSE v

\* The description getSymbolForLabel packs: "<100+anchor><angle> <text>".
LabelDescription(t) ==
    NumberAnchor(IF Tool(t).anchor = NullNum THEN 1 ELSE qBound(1, Tool(t).anchor, 12))
    \o NumberG1(IF Tool(t).angle = NullNum THEN 0 ELSE Tool(t).angle)
    \o <<" ">> \o Tool(t).text

\* The key of a text symbol: colour string and size string, joined.
LabelKey(t) == Bytes(Tool(t).color) \o Bytes(Tool(t).size)

\* The font size of the label tool, when it has one, scales the symbol.
applyLabelSize(t, sym) ==
    IF Tool(t).size_num # NullNum /\ Tool(t).size_num > 0
    THEN [sym EXCEPT !.font_size = Tool(t).size_num]
    ELSE sym

\* The cache-miss part of getSymbolForLabel, c being the duplicate of the
\* default text symbol after makeColor.
LabelCreate(c, t) ==
    [st |-> addSymbol([c.st EXCEPT !.text_symbols =
                           Insert(@, LabelKey(t), Len(c.st.map_symbols) + 1)],
                      applyLabelSize(t, c.sym), t),
     ret |-> Len(c.st.map_symbols) + 1]

\* A lookup that applies colour and size to a cached text symbol as well.
LabelLookupReapply(st, t) ==
    IF Value(st.text_symbols, LabelKey(t)) # Null
    THEN [st |-> [st EXCEPT !.map_symbols[Value(st.text_symbols, LabelKey(t))] =
                      applyLabelSize(t, SetColorOrHide(@,
                          Value(st.colors, Bytes(Tool(t).color))))],
          ret |-> Value(st.text_symbols, LabelKey(t))]
    ELSE LabelCreate(Colored(makeColor(st, Tool(t).color),
                             st.map_symbols[default_text_symbol]), t)

\* The text symbol of a label tool: the cached one, or a new one.
LabelLookup(st, t) ==
    IF Value(st.text_symbols, LabelKey(t)) # Null
    THEN [st |-> st, ret |-> Value(st.text_symbols, LabelKey(t))]
    ELSE LabelCreate(Colored(makeColor(st, Tool(t).color),
                             st.map_symbols[default_text_symbol]), t)

\* text_symbol->setDescription(description), on every call.
LabelDescribe(r, t) ==
    [st |-> [r.st EXCEPT !.map_symbols[r.ret].description = LabelDescription(t)],
     ret |-> r.ret]

\* OgrFileImport::getSymbolForLabel: nullptr without a text; the text symbol
\* is cached under colour string + size string, and its description is
\* set on every call.
getSymbolForLabel(st, t, style_string) ==
    IF Tool(t).text = NullText
    THEN [st |-> st, ret |-> Null]
    ELSE LabelDescribe(LabelLookup(st, t), t)

\* The loops of getSymbolForPointGeometry, getLineSymbol and getAreaSymbol
\* from part i on: the first tool that yields a symbol ends the loop.
RECURSIVE PointLoop(_, _, _)
RECURSIVE LineLoop(_, _, _)
RECURSIVE AreaLoop(_, _, _)

PointNext(r, style_string, i) ==
    IF r.ret # Null THEN r ELSE PointLoop(r.st, style_string, i + 1)

PointLoop(st, style_string, i) ==
    IF i > Len(style_string.tools) THEN [st |-> st, ret |-> Null]
    ELSE PointNext(CASE Tool(style_string.tools[i]).type \in {"Brush", "Pen", "Symbol"} ->
                            getSymbolForOgrSymbol(st, style_string.tools[i], style_string)
                     [] Tool(style_string.tools[i]).type = "Label" ->
                            getSymbolForLabel(st, style_string.tools[i], style_string)
                     [] OTHER -> [st |-> st, ret |-> Null],
                   style_string, i)

\* OgrFileImport::getSymbolForPointGeometry.
getSymbolForPointGeometry(st, style_string) ==
    IF style_string = EmptyStyle \/ Len(style_string.tools) = 0
    THEN [st |-> st, ret |-> Null]
    ELSE PointLoop(st, style_string, 1)

LineNext(r, style_string, i) ==
    IF r.ret # Null THEN r ELSE LineLoop(r.st, style_string, i + 1)

\* Only pen tools are considered.
LineLoop(st, style_string, i) ==
    IF i > Len(style_string.tools) THEN [st |-> st, ret |-> Null]
    ELSE LineNext(IF Tool(style_string.tools[i]).type = "Pen"
                  THEN getSymbolForPen(st, style_string.tools[i], style_string)
                  ELSE [st |-> st, ret |-> Null],
                  style_string, i)

\* OgrFileImport::getLineSymbol.
getLineSymbol(st, style_string) ==
    IF style_string = EmptyStyle \/ Len(style_string.tools) = 0
    THEN [st |-> st, ret |-> Null]
    ELSE LineLoop(st, style_string, 1)

AreaNext(r, style_string, i) ==
    IF r.ret # Null THEN r ELSE AreaLoop(r.st, style_string, i + 1)

\* Only brush tools are considered.
AreaLoop(st, style_string, i) ==
    IF i > Len(style_string.tools) THEN [st |-> st, ret |-> Null]
    ELSE AreaNext(IF Tool(style_string.tools[i]).type = "Brush"
                  THEN getSymbolForBrush(st, style_string.tools[i], style_string)
                  ELSE [st |-> st, ret |-> Null],
                  style_string, i)

\* OgrFileImport::getAreaSymbol.
getAreaSymbol(st, style_string) ==
    IF style_string = EmptyStyle \/ Len(style_string.tools) = 0
    THEN [st |-> st, ret |-> Null]
    ELSE AreaLoop(st, style_string, 1)

\* Resolve without the fallback to the default symbol.
ResolveNoDefault(st, cached, made, default) ==
    IF cached # Null THEN [st |-> st, ret |-> cached] ELSE made

\* The cache lookup, the creation and the default of one case of getSymbol.
Resolve(st, cached, made, default) ==
    IF cached # Null THEN [st |-> st, ret |-> cached]
    ELSE IF made.ret # Null THEN made
    ELSE [st |-> made.st, ret |-> default]

\* OgrFileImport::getSymbol: Point and Text share a case, Combined falls
\* through to Line.
getSymbol(st, type, style_string) ==
    CASE type \in {"Point", "Text"} ->
             Resolve(st, Value(st.point_symbols, style_string),
                     getSymbolForPointGeometry(st, style_string), default_point_symbol)
      [] type \in {"Line", "Combined"} ->
             Resolve(st, Value(st.line_symbols, style_string),
                     getLineSymbol(st, style_string), default_line_symbol)
      [] type = "Area" ->
             Resolve(st, Value(st.area_symbols, style_string),
                     getAreaSymbol(st, style_string), default_area_symbol)

----------------------------------------------------------------------------
(* Geometries of the data source, map coordinates and map objects.          *)

\* An OGR geometry: its flattened type, the points of a point or line
\* string, and the rings of a polygon or the members of a collection.
Geometry(type, points, geoms) == [type |-> type, points |-> points, geoms |-> geoms]

PointGeometry(points) == Geometry("Point", points, << >>)
LineString(points) == Geometry("LineString", points, << >>)
Polygon(rings) ==
    Geometry("Polygon", << >>, [i \in 1..Len(rings) |-> LineString(rings[i])])
Collection(type, geoms) == Geometry(type, << >>, geoms)

\* A feature: geometry, style string and fields; the SRS of the geometry,
\* whether OGR_G_Transform fails on it, and whether its icon file exists.
Feature(geometry, style, fields) ==
    [geometry |-> geometry, style |-> style, fields |-> fields,
     srs |-> Null, transform_error |-> FALSE, icon_exists |-> FALSE]

\* OGR_G_GetX / OGR_G_GetY of point i (from 1); an empty point reads as 0.
GetXY(geometry, i) ==
    IF i <= Len(geometry.points) THEN geometry.points[i] ELSE << 0, 0 >>

\* OgrFileImport::fromDrawing: the y axis is flipped.
fromDrawing(p) == << p[1], -p[2] >>

\* Georeferencing::toMapCoordF: projected coordinates relative to the
\* projected reference point, the y axis flipped.
toMapCoordF(g, p) == << p[1] - g.ref_point[1], g.ref_point[2] - p[2] >>

\* OgrFileImport::fromProjected.
fromProjected(st, p) == toMapCoordF(st.georef, p)

\* OgrFileImport::toMapCoord: through the member function pointer.
toMapCoord(st, p) ==
    IF st.to_map_coord = "fromDrawing" THEN fromDrawing(p) ELSE fromProjected(st, p)

\* nullptr of an Object*, and the fields of an object.
NoObject ==
    [type |-> "None", symbol |-> Null, parts |-> << >>, rotation |-> 0,
     text |-> << >>, h_align |-> "AlignHCenter", v_align |-> "AlignVCenter",
     tags |-> << >>]

\* PointObject(symbol) and setPosition.
PointObject(symbol, c) ==
    [NoObject EXCEPT !.type = "Point", !.symbol = symbol,
                     !.parts = << [coords |-> << c >>, closed |-> FALSE] >>]

\* TextObject(symbol) and setAnchorPosition.
TextObject(symbol, c) ==
    [NoObject EXCEPT !.type = "Text", !.symbol = symbol,
                     !.parts = << [coords |-> << c >>, closed |-> FALSE] >>]

\* PathObject(symbol): no coordinates, no parts.
PathObject(symbol) == [NoObject EXCEPT !.type = "Path", !.symbol = symbol]

\* PathObject::addCoordinate(c, start_new_part): the first coordinate opens
\* the first part; later ones extend the last part or open a new one.
addCoordinate(object, c, start_new_part) ==
    IF Len(object.parts) = 0 \/ start_new_part
    THEN [object EXCEPT !.parts = Append(@, [coords |-> << c >>, closed |-> FALSE])]
    ELSE [object EXCEPT !.parts[Len(object.parts)].coords = Append(@, c)]

\* PathPart::setClosed(true, true): a part of one point, or whose ends
\* differ, gets a closing point equal to its first point.
closePart(part) ==
    IF part.closed THEN part
    ELSE [coords |-> IF Len(part.coords) = 1 \/ part.coords[1] # part.coords[Len(part.coords)]
                     THEN Append(part.coords, part.coords[1])
                     ELSE part.coords,
          closed |-> TRUE]

\* PathObject::closeAllParts.
closeAllParts(object) ==
    [object EXCEPT !.parts = [i \in 1..Len(object.parts) |-> closePart(object.parts[i])]]

\* Object::setTag.
setTag(object, key, value) ==
    [object EXCEPT !.tags =
        IF \E i \in 1..Len(object.tags) : object.tags[i][1] = key
        THEN [i \in 1..Len(object.tags) |->
                 IF object.tags[i][1] = key THEN << key, value >> ELSE object.tags[i]]
        ELSE Append(object.tags, << key, value >>)]

----------------------------------------------------------------------------
(* Parsing the description of a symbol.                                     *)

AllDigits(s) == Len(s) > 0 /\ \A i \in 1..Len(s) : IsDigit(s[i])

\* QString::indexOf(c), counted from 0; -1 when c does not occur.
IndexOf(s, c) ==
    IF \E i \in 1..Len(s) : s[i] = c
    THEN (CHOOSE i \in 1..Len(s) : s[i] = c /\ \A j \in 1..(i - 1) : s[j] # c) - 1
    ELSE -1

\* QStringRef(&s, position, n) and QString::mid: n characters from the
\* 0-based position, as far as s reaches.
Mid(s, position, n) ==
    IF n <= 0 \/ position >= Len(s) THEN << >>
    ELSE SubSeq(s, position + 1, IF position + n > Len(s) THEN Len(s) ELSE position + n)

\* toInt(&ok) of a string of digits.
ToInt(s) ==
    IF AllDigits(s) THEN [ok |-> TRUE, value |-> DigitsValue(s)]
    ELSE [ok |-> FALSE, value |-> 0]

\* toDouble(&ok) of the number formats the descriptions carry: digits,
\* digits with a fraction of zeros, and a mantissa digit with exponent.
ToDouble(s) ==
    CASE AllDigits(s) -> [ok |-> TRUE, value |-> DigitsValue(s)]
      [] /\ IndexOf(s, ".") > 0
         /\ AllDigits(Mid(s, 0, IndexOf(s, ".")))
         /\ Len(s) > IndexOf(s, ".") + 1
         /\ \A i \in (IndexOf(s, ".") + 2)..Len(s) : s[i] = "0" ->
             [ok |-> TRUE, value |-> DigitsValue(Mid(s, 0, IndexOf(s, ".")))]
      [] /\ IndexOf(s, "e") > 0
         /\ AllDigits(Mid(s, 0, IndexOf(s, "e")))
         /\ Len(s) > IndexOf(s, "e") + 2
         /\ s[IndexOf(s, "e") + 2] = "+"
         /\ AllDigits(Mid(s, IndexOf(s, "e") + 2, Len(s))) ->
             [ok |-> TRUE,
              value |-> DigitsValue(Mid(s, 0, IndexOf(s, "e")))
                        * Pow10(DigitsValue(Mid(s, IndexOf(s, "e") + 2, Len(s))))]
      [] OTHER -> [ok |-> FALSE, value |-> 0]

\* label.replace(QRegularExpression("(\\[^;]*;)*"), QString{}): every
\* escape sequence from a backslash to the next semicolon is removed.
RECURSIVE StripEscapes(_)
StripEscapes(s) ==
    IF Len(s) = 0 THEN s
    ELSE IF s[1] = "\\" /\ IndexOf(s, ";") > 0
    THEN StripEscapes(Mid(s, IndexOf(s, ";") + 1, Len(s)))
    ELSE << s[1] >> \o StripEscapes(Tail(s))

\* label.replace("^I", "\t").
RECURSIVE ReplaceCaretI(_)
ReplaceCaretI(s) ==
    IF Len(s) < 2 THEN s
    ELSE IF s[1] = "^" /\ s[2] = "I"
    THEN << "\t" >> \o ReplaceCaretI(Mid(s, 2, Len(s)))
    ELSE << s[1] >> \o ReplaceCaretI(Tail(s))

\* OGR_F_GetFieldIndex: the first field of that name, from 0; -1 if none.
GetFieldIndex(feature, name) ==
    IF \E i \in 1..Len(feature.fields) : feature.fields[i].name = name
    THEN (CHOOSE i \in 1..Len(feature.fields) :
              /\ feature.fields[i].name = name
              /\ \A j \in 1..(i - 1) : feature.fields[j].name # name) - 1
    ELSE -1

\* The label of a text object: the description after its first space; a
\* label in braces loses them and, when it names a field, becomes the
\* field's value.
LabelOf(feature, description) ==
    LET label == Mid(description, IndexOf(description, " ") + 1, Len(description))
        inner == Mid(label, 1, Len(label) - 2)
    IN  IF Len(label) > 0 /\ label[1] = "{" /\ label[Len(label)] = "}"
        THEN IF GetFieldIndex(feature, inner) >= 0
             THEN feature.fields[GetFieldIndex(feature, inner) + 1].value
             ELSE inner
        ELSE label

\* The quotient and the remainder of the division of ints, which
\* truncates towards zero.
IntDiv(a, b) == IF a >= 0 THEN a \div b ELSE -((-a) \div b)
IntMod(a, b) == a - b * IntDiv(a, b)

\* applyLabelAnchor.  The default branches are Q_UNREACHABLE(), which is
\* undefined behaviour when it is reached: the alignment is marked.
applyLabelAnchor(anchor, text_object) ==
    [text_object EXCEPT
        !.v_align = CASE IntDiv(anchor - 1, 3) = 0 -> "AlignBaseline"
                      [] IntDiv(anchor - 1, 3) = 1 -> "AlignVCenter"
                      [] IntDiv(anchor - 1, 3) = 2 -> "AlignTop"
                      [] IntDiv(anchor - 1, 3) = 3 -> "AlignBottom"
                      [] OTHER -> "Q_UNREACHABLE",
        !.h_align = CASE IntMod(anchor - 1, 3) = 0 -> "AlignLeft"
                      [] IntMod(anchor - 1, 3) = 1 -> "AlignHCenter"
                      [] IntMod(anchor - 1, 3) = 2 -> "AlignRight"
                      [] OTHER -> "Q_UNREACHABLE"]

----------------------------------------------------------------------------
(* Geometry importer.                                                       *)

\* The point object of importPointGeometry: a description that parses as a
\* number is the rotation, kept as a tag as well.
ImportedPoint(symbol, description, c) ==
    IF ToDouble(description).ok
    THEN setTag([PointObject(symbol, c) EXCEPT !.rotation = ToDouble(description).value],
                << "R", "o", "t", "a", "t", "i", "o", "n" >>,
                NumberInt(ToDouble(description).value))
    ELSE PointObject(symbol, c)

\* The anchor of the description, applied when it parses.
WithAnchor(object, description) ==
    IF ToInt(Mid(description, 1, 2)).ok
    THEN applyLabelAnchor(ToInt(Mid(description, 1, 2)).value, object)
    ELSE object

\* The angle of the description, applied when it parses.
WithAngle(object, description) ==
    IF ToDouble(Mid(description, 3, IndexOf(description, " ") - 3)).ok
    THEN [object EXCEPT !.rotation =
              ToDouble(Mid(description, 3, IndexOf(description, " ") - 3)).value]
    ELSE object

\* The text object of importPointGeometry, or nullptr for an empty label.
ImportedText(symbol, description, label, c) ==
    IF Len(label) = 0 THEN NoObject
    ELSE WithAngle(WithAnchor([TextObject(symbol, c) EXCEPT
                                   !.text = ReplaceCaretI(StripEscapes(label))],
                              description),
                   description)

\* importPointGeometry after getSymbol returned r.
PointOrText(r, feature, geometry) ==
    [st |-> r.st,
     ret |-> CASE r.st.map_symbols[r.ret].type = "Point" ->
                      ImportedPoint(r.ret, r.st.map_symbols[r.ret].description,
                                    toMapCoord(r.st, GetXY(geometry, 1)))
               [] r.st.map_symbols[r.ret].type = "Text" ->
                      ImportedText(r.ret, r.st.map_symbols[r.ret].description,
                                   LabelOf(feature, r.st.map_symbols[r.ret].description),
                                   toMapCoord(r.st, GetXY(geometry, 1)))
               [] OTHER -> NoObject]

\* OgrFileImport::importPointGeometry.
importPointGeometry(st, feature, geometry) ==
    PointOrText(getSymbol(st, "Point", feature.style), feature, geometry)

\* The loop over the points of a line string or ring: the first
\* coordinate is added with start_new_part, the others without.
RECURSIVE AddCoordinates(_, _, _, _, _)
AddCoordinates(object, st, geometry, i, start_new_part) ==
    IF i > Len(geometry.points) THEN object
    ELSE AddCoordinates(addCoordinate(object, toMapCoord(st, GetXY(geometry, i)),
                                      start_new_part),
                        st, geometry, i + 1, FALSE)

\* The path object of importLineStringGeometry after getSymbol returned r.
LineStringObject(r, geometry) ==
    [st |-> r.st, ret |-> AddCoordinates(PathObject(r.ret), r.st, geometry, 1, FALSE)]

\* A line string importer that accepts a single point.
importLineStringGeometryMin1(st, feature, geometry) ==
    IF Len(geometry.points) < 1
    THEN [st |-> [st EXCEPT !.too_few_coordinates = @ + 1], ret |-> NoObject]
    ELSE LineStringObject(getSymbol(st, "Line", feature.style), geometry)

\* OgrFileImport::importLineStringGeometry.
importLineStringGeometry(st, feature, geometry) ==
    IF Len(geometry.points) < 2
    THEN [st |-> [st EXCEPT !.too_few_coordinates = @ + 1], ret |-> NoObject]
    ELSE LineStringObject(getSymbol(st, "Line", feature.style), geometry)

\* The loop over the hole rings from ring g on.
RECURSIVE AddHoles(_, _, _, _)
AddHoles(object, st, geometry, g) ==
    IF g > Len(geometry.geoms) THEN object
    ELSE AddHoles(AddCoordinates(object, st, geometry.geoms[g], 1, TRUE),
                  st, geometry, g + 1)

\* A polygon importer that leaves the parts open.
PolygonObjectOpen(r, geometry) ==
    [st |-> r.st,
     ret |-> AddHoles(AddCoordinates(PathObject(r.ret), r.st, geometry.geoms[1], 1, FALSE),
                      r.st, geometry, 2)]

\* The path object of importPolygonGeometry after getSymbol returned r.
PolygonObject(r, geometry) ==
    [st |-> r.st,
     ret |-> closeAllParts(
                 AddHoles(AddCoordinates(PathObject(r.ret), r.st, geometry.geoms[1], 1, FALSE),
                          r.st, geometry, 2))]

\* OgrFileImport::importPolygonGeometry.
importPolygonGeometry(st, feature, geometry) ==
    IF Len(geometry.geoms) < 1
    THEN [st |-> [st EXCEPT !.too_few_coordinates = @ + 1], ret |-> NoObject]
    ELSE IF Len(geometry.geoms[1].points) < 3
    THEN [st |-> [st EXCEPT !.too_few_coordinates = @ + 1], ret |-> NoObject]
    ELSE PolygonObject(getSymbol(st, "Area", feature.style), geometry)

\* result = { object } when the importer returned an object.
ObjectList(r) ==
    [st |-> r.st, ret |-> IF r.ret.type = "None" THEN << >> ELSE << r.ret >>]

RECURSIVE importGeometry(_, _, _)
RECURSIVE CollectionLoop(_, _, _, _, _)

CollectionNext(r, feature, geometry, i, result) ==
    CollectionLoop(r.st, feature, geometry, i + 1, result \o r.ret)

\* The loop of importGeometryCollection from member i on.
CollectionLoop(st, feature, geometry, i, result) ==
    IF i > Len(geometry.geoms) THEN [st |-> st, ret |-> result]
    ELSE CollectionNext(importGeometry(st, feature, geometry.geoms[i]),
                        feature, geometry, i, result)

\* OgrFileImport::importGeometryCollection.
importGeometryCollection(st, feature, geometry) ==
    CollectionLoop(st, feature, geometry, 1, << >>)

\* OgrFileImport::importGeometry.
importGeometry(st, feature, geometry) ==
    CASE geometry.type = "Point" ->
             ObjectList(importPointGeometry(st, feature, geometry))
      [] geometry.type = "LineString" ->
             ObjectList(importLineStringGeometry(st, feature, geometry))
      [] geometry.type = "Polygon" ->
             ObjectList(importPolygonGeometry(st, feature, geometry))
      [] geometry.type \in {"GeometryCollection", "MultiLineString", "MultiPoint",
                            "MultiPolygon"} ->
             importGeometryCollection(st, feature, geometry)
      [] OTHER ->
             [st |-> [st EXCEPT !.unsupported_geometry_type = @ + 1], ret |-> << >>]

----------------------------------------------------------------------------
(* Spatial references and coordinate transformations.                       *)

\* The spatial references of the model: OSRIsLocal, OSRIsProjected, whether
\* a transformation to the orthographic SRS exists, the PROJ.4 text (null
\* when OSRExportToProj4 fails), and the origin of the coordinates.  An
\* orthographic SRS stands for every centre it can have.
Srs(id) ==
    CASE id = 1 -> [local |-> TRUE, projected |-> FALSE, reachable |-> FALSE,
                    proj4 |-> NullStr, origin |-> << 0, 0 >>]
      [] id = 2 -> [local |-> FALSE, projected |-> FALSE, reachable |-> TRUE,
                    proj4 |-> "+proj=longlat", origin |-> << 4, 0 >>]
      [] id = 3 -> [local |-> FALSE, projected |-> TRUE, reachable |-> TRUE,
                    proj4 |-> "+proj=utm", origin |-> << 0, 0 >>]
      [] id = 4 -> [local |-> FALSE, projected |-> TRUE, reachable |-> TRUE,
                    proj4 |-> NullStr, origin |-> << 0, 2 >>]
      [] id = 5 -> [local |-> FALSE, projected |-> TRUE, reachable |-> FALSE,
                    proj4 |-> "+proj=x", origin |-> << 0, 0 >>]
      [] id = 6 -> [local |-> FALSE, projected |-> TRUE, reachable |-> TRUE,
                    proj4 |-> "+proj=tmerc", origin |-> << 0, 3 >>]
      [] id = 7 -> [local |-> FALSE, projected |-> TRUE, reachable |-> TRUE,
                    proj4 |-> "+proj=ortho", origin |-> << 0, 0 >>]
      [] id = 8 -> [local |-> FALSE, projected |-> FALSE, reachable |-> TRUE,
                    proj4 |-> "+proj=longlat", origin |-> << 0, 0 >>]

\* The orthographic SRS importGeoreferencing tests the layers against, and
\* the WGS84 geographic SRS of calcAverageLatLon.
OrthographicSrs == 7
GeographicSrs == 8
LocalSrs == 1

\* OCTNewCoordinateTransformation(from, to) returns a transformation.
CanTransform(from, to) == from = to \/ (Srs(from).reachable /\ Srs(to).reachable)

\* nullptr of a transformation.
NoTransformation == [from |-> Null, to |-> Null]

\* OCTNewCoordinateTransformation(from, to).
NewCoordinateTransformation(from, to) == [from |-> from, to |-> to]

\* A point under a transformation.
TransformPoint(p, t) ==
    << p[1] + Srs(t.from).origin[1] - Srs(t.to).origin[1],
       p[2] + Srs(t.from).origin[2] - Srs(t.to).origin[2] >>

\* OGR_G_Transform(geometry, transformation), when it succeeds.
RECURSIVE TransformGeometry(_, _)
TransformGeometry(geometry, t) ==
    [type |-> geometry.type,
     points |-> [i \in 1..Len(geometry.points) |-> TransformPoint(geometry.points[i], t)],
     geoms |-> [i \in 1..Len(geometry.geoms) |-> TransformGeometry(geometry.geoms[i], t)]]

\* A setSRS which builds a transformation for every SRS, the SRS of the
\* data included.
setSRSUncached(st, srs) ==
    IF srs # Null
    THEN IF ~CanTransform(srs, st.map_srs)
         THEN [st |-> [st EXCEPT !.to_map_coord = "fromProjected",
                                 !.built = @ + 1,
                                 !.no_transformation = @ + 1],
               ret |-> FALSE]
         ELSE [st |-> [st EXCEPT !.to_map_coord = "fromProjected",
                                 !.built = @ + 1,
                                 !.data_srs = srs,
                                 !.data_transform =
                                     NewCoordinateTransformation(srs, st.map_srs)],
               ret |-> TRUE]
    ELSE [st |-> [st EXCEPT !.to_map_coord =
                      IF srs = Null /\ st.unit_type = "UnitOnPaper"
                      THEN "fromDrawing" ELSE "fromProjected"],
          ret |-> TRUE]

\* A setSRS which commits the SRS of the data before it knows that the
\* transformation exists.
setSRSCommitFirst(st, srs) ==
    IF srs # Null /\ st.data_srs # srs
    THEN IF ~CanTransform(srs, st.map_srs)
         THEN [st |-> [st EXCEPT !.to_map_coord = "fromProjected",
                                 !.built = @ + 1,
                                 !.data_srs = srs,
                                 !.no_transformation = @ + 1],
               ret |-> FALSE]
         ELSE [st |-> [st EXCEPT !.to_map_coord = "fromProjected",
                                 !.built = @ + 1,
                                 !.data_srs = srs,
                                 !.data_transform =
                                     NewCoordinateTransformation(srs, st.map_srs)],
               ret |-> TRUE]
    ELSE [st |-> [st EXCEPT !.to_map_coord =
                      IF srs = Null /\ st.unit_type = "UnitOnPaper"
                      THEN "fromDrawing" ELSE "fromProjected"],
          ret |-> TRUE]

\* OgrFileImport::setSRS.  built counts the calls of
\* OCTNewCoordinateTransformation.
setSRS(st, srs) ==
    IF srs # Null /\ st.data_srs # srs
    THEN IF ~CanTransform(srs, st.map_srs)
         THEN [st |-> [st EXCEPT !.to_map_coord = "fromProjected",
                                 !.built = @ + 1,
                                 !.no_transformation = @ + 1],
               ret |-> FALSE]
         ELSE [st |-> [st EXCEPT !.to_map_coord = "fromProjected",
                                 !.built = @ + 1,
                                 !.data_srs = srs,
                                 !.data_transform =
                                     NewCoordinateTransformation(srs, st.map_srs)],
               ret |-> TRUE]
    ELSE [st |-> [st EXCEPT !.to_map_coord =
                      IF srs = Null /\ st.unit_type = "UnitOnPaper"
                      THEN "fromDrawing" ELSE "fromProjected"],
          ret |-> TRUE]

\* The importer after OGR_G_Transform(geometry, data_transform.get()) on a
\* geometry of the given SRS: the call is recorded.
Transformed(st, srs) ==
    [st EXCEPT !.applied = @ \cup { [srs |-> srs, transformation |-> st.data_transform] }]

----------------------------------------------------------------------------
(* Tags.                                                                    *)

\* KeyValueContainer::contains.
TagsContain(tags, key) == \E i \in 1..Len(tags) : tags[i][1] = key

\* KeyValueContainer::at.
TagsAt(tags, key) == (CHOOSE i \in 1..Len(tags) : tags[i][1] = key)

\* KeyValueContainer::insert_or_assign.
TagsInsertOrAssign(tags, key, value) ==
    IF TagsContain(tags, key)
    THEN [i \in 1..Len(tags) |-> IF tags[i][1] = key THEN << key, value >> ELSE tags[i]]
    ELSE Append(tags, << key, value >>)

\* KeyValueContainer::insert: the inserted tag is in the container
\* afterwards; it is not overwritten by a value the container had for its
\* key.
TagsInsert(tags, tag) == TagsInsertOrAssign(tags, tag[1], tag[2])

\* The loop of importFields from field i on.
RECURSIVE FieldsLoop(_, _, _)
FieldsLoop(feature, i, tags) ==
    IF i > Len(feature.fields) THEN tags
    ELSE FieldsLoop(feature, i + 1,
                    IF Len(feature.fields[i].value) > 0
                    THEN TagsInsertOrAssign(tags, feature.fields[i].name,
                                            feature.fields[i].value)
                    ELSE tags)

\* OgrFileImport::importFields.
importFields(feature) == FieldsLoop(feature, 1, << >>)

----------------------------------------------------------------------------
(* Clipping.                                                                *)

\* The margin of an object's extent around its coordinates.
ExtentMargin == 2

Min(S) == CHOOSE x \in S : \A y \in S : x <= y
Max(S) == CHOOSE x \in S : \A y \in S : x >= y

\* The coordinates of all parts of an object.
AllCoords(object) ==
    UNION { { object.parts[i].coords[j] : j \in 1..Len(object.parts[i].coords) } :
                i \in 1..Len(object.parts) }

\* The bounding rectangle of a set of coordinates, grown by a margin.
Bounds(coords, margin) ==
    [lo |-> << Min({ c[1] : c \in coords }) - margin, Min({ c[2] : c \in coords }) - margin >>,
     hi |-> << Max({ c[1] : c \in coords }) + margin, Max({ c[2] : c \in coords }) + margin >>]

\* Object::getExtent: the rectangle the object's symbols cover.
getExtent(object) == Bounds(AllCoords(object), ExtentMargin)

\* The extent of the clipping path, which has the undefined line symbol.
getPathExtent(boundary) ==
    Bounds({ boundary[i] : i \in 1..Len(boundary) }, 0)

\* QRectF::intersects.
intersects(a, b) ==
    /\ a.lo[1] < b.hi[1] /\ b.lo[1] < a.hi[1]
    /\ a.lo[2] < b.hi[2] /\ b.lo[2] < a.hi[2]

\* PathObject::isPointInsideArea for the rectangular clipping path.
isPointInsideArea(boundary, p) ==
    /\ getPathExtent(boundary).lo[1] <= p[1] /\ p[1] <= getPathExtent(boundary).hi[1]
    /\ getPathExtent(boundary).lo[2] <= p[2] /\ p[2] <= getPathExtent(boundary).hi[2]

\* The outcomes of the boolean tool on one path object.
ClipOutcomes == { "failed", "empty", "whole", "cut" }

\* The objects BooleanTool returns: none, the object, or a part of it.
BooleanResult(outcome, object) ==
    CASE outcome = "empty" -> << >>
      [] outcome = "cut" ->
             << [object EXCEPT !.parts = << [coords |-> SubSeq(object.parts[1].coords, 1, 2),
                                              closed |-> FALSE] >>] >>
      [] OTHER -> << object >>

\* ClippingImplementation::process(PathObjects, ObjectList) for one object:
\* areas are closed and clipped, and kept when the tool fails; lines are
\* clipped.
processPath(st, object, outcome) ==
    IF st.map_symbols[object.symbol].type = "Area"
    THEN IF outcome = "failed" THEN << closeAllParts(object) >>
         ELSE BooleanResult(outcome, closeAllParts(object))
    ELSE BooleanResult(outcome, object)

\* One iteration of process(ObjectList) that keeps whatever intersects.
processObjectByExtent(st, boundary, object, outcome) ==
    IF intersects(getExtent(object), getPathExtent(boundary))
    THEN CASE object.type \in {"Point", "Text"} -> << object >>
           [] object.type = "Path" -> processPath(st, object, outcome)
           [] OTHER -> << object >>
    ELSE << >>

\* One iteration of ClippingImplementation::process(ObjectList).
processObject(st, boundary, object, outcome) ==
    IF intersects(getExtent(object), getPathExtent(boundary))
    THEN CASE object.type \in {"Point", "Text"} ->
                  IF isPointInsideArea(boundary, object.parts[1].coords[1])
                  THEN << object >> ELSE << >>
           [] object.type = "Path" -> processPath(st, object, outcome)
           [] OTHER -> << object >>
    ELSE << >>

\* ClippingImplementation::process(ObjectList) from object i on.
RECURSIVE process(_, _, _, _, _)
process(st, boundary, objects, i, outcome) ==
    IF i > Len(objects) THEN << >>
    ELSE processObject(st, boundary, objects[i], outcome)
         \o process(st, boundary, objects, i + 1, outcome)

\* The objects of one process call as pointers: the i-th object of the
\* list given is Original(i); the k-th object the boolean tool creates from
\* it is Created(i, k).
Original(i) == [of |-> i, copy |-> 0]
Created(i, k) == [of |-> i, copy |-> k]

\* What one process call does with the objects: the pointers in the list it
\* returns, the pointers it deletes, in the order of the delete
\* expressions, and the objects for which the boolean tool failed.
NoOwnership == [result |-> << >>, deleted |-> << >>, failed |-> {}]

\* out_path_objects of the boolean tool: newly created objects.
CreatedObjects(outcome, object, i) ==
    [k \in 1..Len(BooleanResult(outcome, object)) |-> Created(i, k)]

\* A process(PathObjects, ObjectList) which deletes the object although
\* the tool failed and the object is in the list.
processPathOwnedNoRelease(st, object, i, outcome) ==
    IF st.map_symbols[object.symbol].type = "Area" /\ outcome = "failed"
    THEN [result |-> << Original(i) >>, deleted |-> << Original(i) >>, failed |-> { i }]
    ELSE [result |-> CreatedObjects(outcome, object, i), deleted |-> << Original(i) >>,
          failed |-> {}]

\* The pointers of process(PathObjects, ObjectList) for the object i: when
\* executeForObjects fails for an area, the object is put into the list and
\* the pointer is set to nullptr before the delete; otherwise the objects
\* of the tool are put into the list and the object is deleted.
processPathOwned(st, object, i, outcome) ==
    IF st.map_symbols[object.symbol].type = "Area"
    THEN IF outcome = "failed"
         THEN [result |-> << Original(i) >>, deleted |-> << >>, failed |-> { i }]
         ELSE [result |-> CreatedObjects(outcome, closeAllParts(object), i),
               deleted |-> << Original(i) >>, failed |-> {}]
    ELSE [result |-> CreatedObjects(outcome, object, i), deleted |-> << Original(i) >>,
          failed |-> {}]

\* The pointers of one iteration of process(ObjectList): an object which
\* is put into the result is set to nullptr before the delete at the end
\* of the iteration, a path object after the call which takes it.
processObjectOwned(st, boundary, object, i, outcome) ==
    IF intersects(getExtent(object), getPathExtent(boundary))
    THEN CASE object.type \in {"Point", "Text"} ->
                  IF isPointInsideArea(boundary, object.parts[1].coords[1])
                  THEN [result |-> << Original(i) >>, deleted |-> << >>, failed |-> {}]
                  ELSE [result |-> << >>, deleted |-> << Original(i) >>, failed |-> {}]
           [] object.type = "Path" -> processPathOwned(st, object, i, outcome)
           [] OTHER -> [result |-> << Original(i) >>, deleted |-> << >>, failed |-> {}]
    ELSE [result |-> << >>, deleted |-> << Original(i) >>, failed |-> {}]

\* The pointers of two iterations, one after the other.
OwnedThen(a, b) ==
    [result |-> a.result \o b.result, deleted |-> a.deleted \o b.deleted,
     failed |-> a.failed \cup b.failed]

\* The pointers of ClippingImplementation::process(ObjectList) from object
\* i on.
RECURSIVE processOwned(_, _, _, _, _)
processOwned(st, boundary, objects, i, outcome) ==
    IF i > Len(objects) THEN NoOwnership
    ELSE OwnedThen(processObjectOwned(st, boundary, objects[i], i, outcome),
                   processOwned(st, boundary, objects, i + 1, outcome))

\* nullptr of a Clipping.
NoClipping == << >>

\* The outline of a layer's extent: five points, closed.
Outline(extent) ==
    << << extent.lo[1], extent.lo[2] >>, << extent.hi[1], extent.lo[2] >>,
       << extent.hi[1], extent.hi[2] >>, << extent.lo[1], extent.hi[2] >>,
       << extent.lo[1], extent.lo[2] >> >>

\* getLayerClipping after setSRS returned r: a transformation error is
\* counted and gives no clipping; without a usable SRS the outline stays
\* untransformed.
ClippingAfterSRS(r, layer) ==
    IF r.ret /\ layer.srs # Null /\ layer.extent_transform_error
    THEN [st |-> [Transformed(r.st, layer.srs) EXCEPT !.failed_transformation = @ + 1],
          ret |-> NoClipping]
    ELSE [st |-> IF r.ret /\ layer.srs # Null THEN Transformed(r.st, layer.srs) ELSE r.st,
          ret |-> [i \in 1..5 |->
                      toMapCoord(r.st,
                                 IF r.ret /\ layer.srs # Null
                                 THEN TransformPoint(Outline(layer.extent)[i],
                                                     r.st.data_transform)
                                 ELSE Outline(layer.extent)[i])]]

\* OgrFileImport::getLayerClipping.
getLayerClipping(st, layer) ==
    IF ~layer.has_extent THEN [st |-> st, ret |-> NoClipping]
    ELSE ClippingAfterSRS(setSRS(st, layer.srs), layer)

----------------------------------------------------------------------------
(* Feature import.                                                          *)

ICON == << "i", "c", "o", "n" >>

\* PathObject::getCoordinateCount.
getCoordinateCount(object) ==
    Cardinality(UNION { { << i, j >> : j \in 1..Len(object.parts[i].coords) } :
                            i \in 1..Len(object.parts) })

\* OgrFileImport::handleKmlOverlayIcon: a single path of five coordinates
\* whose icon file exists becomes a template.
handleKmlOverlayIcon(r, tags, icon_exists) ==
    IF /\ Len(r.ret) = 1
       /\ TagsContain(tags, ICON)
       /\ r.ret[1].type = "Path"
       /\ getCoordinateCount(r.ret[1]) = 5
       /\ icon_exists
    THEN [st |-> [r.st EXCEPT !.templates = @ + 1], ret |-> << >>]
    ELSE r

\* The loop of importFeature over the objects from object i on: the tags
\* of the object are inserted into the feature's tags, which are set on
\* the object, and the object is added to the map part.
RECURSIVE AddObjects(_, _, _, _)
RECURSIVE InsertTags(_, _, _)

\* A loop which leaves the tags of the fields as they are.
InsertTagsNone(tags, object_tags, i) == tags

\* The loop of importFeature over the tags of an object, from tag i on.
InsertTags(tags, object_tags, i) ==
    IF i > Len(object_tags) THEN tags
    ELSE InsertTags(TagsInsert(tags, object_tags[i]), object_tags, i + 1)

AddObjects(st, objects, i, tags) ==
    IF i > Len(objects) THEN st
    ELSE AddObjects([st EXCEPT !.map_part =
                         Append(@, [objects[i] EXCEPT
                                       !.tags = InsertTags(tags, objects[i].tags, 1)])],
                    objects, i + 1, InsertTags(tags, objects[i].tags, 1))

\* importFeature from the loop over the clipped objects on.
AddClipped(st, imported, clipped_objects, tags) ==
    AddObjects([st EXCEPT !.imported = imported, !.clipped = clipped_objects],
               clipped_objects, 1, tags)

\* importFeature from the clipping on, r being the objects of the feature.
ClipAndAdd(r, tags, boundary, outcome) ==
    AddClipped([r.st EXCEPT !.owned = IF boundary # NoClipping
                                      THEN processOwned(r.st, boundary, r.ret, 1, outcome)
                                      ELSE NoOwnership],
               r.ret,
               IF boundary # NoClipping
               THEN process(r.st, boundary, r.ret, 1, outcome)
               ELSE r.ret,
               tags)

\* importFeature after importGeometry returned r.
FeatureObjects(r, feature, boundary, outcome) ==
    ClipAndAdd(IF r.st.driver_name = "LIBKML"
               THEN handleKmlOverlayIcon(r, importFields(feature), feature.icon_exists)
               ELSE r,
               importFields(feature), boundary, outcome)

\* importFeature after setSRS returned r.
FeatureAfterSRS(r, feature, boundary, outcome) ==
    IF ~r.ret THEN r.st
    ELSE IF feature.srs # Null /\ feature.transform_error
    THEN [Transformed(r.st, feature.srs) EXCEPT !.failed_transformation = @ + 1]
    ELSE FeatureObjects(importGeometry(IF feature.srs # Null
                                       THEN Transformed(r.st, feature.srs) ELSE r.st,
                                       feature,
                                       IF feature.srs # Null
                                       THEN TransformGeometry(feature.geometry,
                                                              r.st.data_transform)
                                       ELSE feature.geometry),
                        feature, boundary, outcome)

\* OgrFileImport::importFeature.
importFeature(st, feature, boundary, outcome) ==
    FeatureAfterSRS(setSRS(st, feature.srs), feature, boundary, outcome)

----------------------------------------------------------------------------
(* Committing a store, and the observation of one call.                     *)

SetStore(st) ==
    /\ map_colors' = st.map_colors
    /\ map_symbols' = st.map_symbols
    /\ colors' = st.colors
    /\ point_symbols' = st.point_symbols
    /\ line_symbols' = st.line_symbols
    /\ area_symbols' = st.area_symbols
    /\ text_symbols' = st.text_symbols

Range(seq) == { seq[i] : i \in 1..Len(seq) }

\* The makeColor calls and the symbols created by one operation.
Observe(st) ==
    /\ col_ret' = [c \in DOMAIN col_ret \cup { e[1] : e \in Range(st.mc) } |->
                      (IF c \in DOMAIN col_ret THEN col_ret[c] ELSE {})
                      \cup { e[2] : e \in { x \in Range(st.mc) : x[1] = c } }]
    /\ col_calls' = [c \in DOMAIN col_calls \cup { e[1] : e \in Range(st.mc) } |->
                      (IF c \in DOMAIN col_calls THEN col_calls[c] ELSE 0)
                      + Cardinality({ i \in 1..Len(st.mc) : st.mc[i][1] = c })]
    /\ sym_tool' = [s \in DOMAIN sym_tool \cup { e[1] : e \in Range(st.created) } |->
                      IF s \in DOMAIN sym_tool THEN sym_tool[s]
                      ELSE (CHOOSE e \in Range(st.created) : e[1] = s)[2]]

NoCall == [type |-> "None", key |-> EmptyStyle, ret |-> Null, existed |-> FALSE,
           before |-> NoSymbol, prev |-> <<"None", EmptyStyle>>]

\* The state after a getSymbol call that returned r.
Returned(type, style_string, r) ==
    /\ SetStore(r.st)
    /\ Observe(r.st)
    /\ sym_ret' = [x \in DOMAIN sym_ret \cup {<<type, style_string>>} |->
                      (IF x \in DOMAIN sym_ret THEN sym_ret[x] ELSE {})
                      \cup (IF x = <<type, style_string>> THEN {r.ret} ELSE {})]
    /\ sym_added' = [x \in DOMAIN sym_added \cup {<<type, style_string>>} |->
                      (IF x \in DOMAIN sym_added THEN sym_added[x] ELSE 0)
                      + (IF x = <<type, style_string>> THEN Len(r.st.created) ELSE 0)]
    /\ last' = [type |-> type, key |-> style_string, ret |-> r.ret,
                existed |-> r.ret <= Len(map_symbols),
                before |-> IF r.ret \in 1..Len(map_symbols)
                           THEN map_symbols[r.ret] ELSE NoSymbol,
                prev |-> <<last.type, last.key>>]

\* One call getSymbol(type, style_string), as importPointGeometry,
\* importLineStringGeometry and importPolygonGeometry make it.
GetSymbolCall(type, style_string) ==
    /\ ncalls < MaxCalls
    /\ ncalls' = ncalls + 1
    /\ Returned(type, style_string, getSymbol(Store, type, style_string))
    /\ UNCHANGED << expvars, runvars, cntvars, geovars, srsvars, cfgvars, dsvars, docvars, layvars, impvars,
                    featvars >>

\* The counters of the importer.
Counters ==
    [empty_geometries |-> empty_geometries, no_transformation |-> no_transformation,
     failed_transformation |-> failed_transformation,
     unsupported_geometry_type |-> unsupported_geometry_type,
     too_few_coordinates |-> too_few_coordinates]

SetCounters(st) ==
    /\ empty_geometries' = st.empty_geometries
    /\ no_transformation' = st.no_transformation
    /\ failed_transformation' = st.failed_transformation
    /\ unsupported_geometry_type' = st.unsupported_geometry_type
    /\ too_few_coordinates' = st.too_few_coordinates

NoImport ==
    [feature |-> Feature(Geometry("None", << >>, << >>), EmptyStyle, << >>),
     objects |-> << >>,
     before |-> [empty_geometries |-> 0, no_transformation |-> 0,
                 failed_transformation |-> 0, unsupported_geometry_type |-> 0,
                 too_few_coordinates |-> 0]]

\* The state after an importGeometry call that returned r.
ImportedGeometry(feature, r) ==
    /\ SetStore(r.st)
    /\ SetCounters(r.st)
    /\ last_geom' = [feature |-> feature, objects |-> r.ret, before |-> Counters]

\* One call importGeometry(feature, geometry), as importFeature makes it.
ImportGeometryCall(feature) ==
    /\ nimports < MaxImports
    /\ nimports' = nimports + 1
    /\ ImportedGeometry(feature, importGeometry(Store, feature, feature.geometry))
    /\ UNCHANGED << expvars, runvars, obsvars, geovars, srsvars, cfgvars, dsvars, docvars, layvars, featvars >>

SetImporter(st) ==
    /\ to_map_coord' = st.to_map_coord
    /\ data_srs' = st.data_srs
    /\ data_transform' = st.data_transform
    /\ applied' = st.applied

\* OGR_G_IsEmpty.
RECURSIVE IsEmpty(_)
IsEmpty(geometry) ==
    /\ Len(geometry.points) = 0
    /\ \A i \in 1..Len(geometry.geoms) : IsEmpty(geometry.geoms[i])

NoLayer ==
    [srs |-> Null, has_extent |-> FALSE, fast_extent |-> FALSE,
     extent |-> [lo |-> << 0, 0 >>, hi |-> << 0, 0 >>], extent_transform_error |-> FALSE]

NoFeature ==
    [feature |-> Feature(Geometry("None", << >>, << >>), EmptyStyle, << >>),
     clipping |-> NoClipping, imported |-> << >>, clipped |-> << >>,
     owned |-> NoOwnership, part_before |-> 0,
     srs_before |-> Null, built |-> 0]

\* The state after getLayerClipping returned r.
LayerBegun(r) ==
    /\ SetImporter(r.st)
    /\ SetCounters(r.st)
    /\ clipping' = r.ret

\* importLayer up to the loop over the features.
ImportLayerBegin(layer) ==
    /\ pc = "idle"
    /\ pc' = "layer"
    /\ cur_layer' = layer
    /\ LayerBegun(IF clip_layers /\ layer.fast_extent
                  THEN getLayerClipping(Store, layer)
                  ELSE [st |-> Store, ret |-> NoClipping])
    /\ UNCHANGED << expvars, runvars, symvars, obsvars, georef, map_srs, cfgvars, dsvars, docvars, impvars,
                    featvars >>

\* The state after one iteration of the loop of importLayer.
FeatureDone(feature, st) ==
    /\ SetStore(st)
    /\ SetCounters(st)
    /\ SetImporter(st)
    /\ map_part' = st.map_part
    /\ templates' = st.templates
    /\ last_feature' = [feature |-> feature, clipping |-> clipping,
                        imported |-> st.imported, clipped |-> st.clipped,
                        owned |-> st.owned,
                        part_before |-> Len(map_part),
                        srs_before |-> data_srs, built |-> st.built]

\* One iteration of the loop of importLayer: a feature without geometry or
\* with an empty one is counted, any other is imported.
ImportLayerFeature(feature, outcome) ==
    /\ pc = "layer"
    /\ nfeatures < MaxFeatures
    /\ nfeatures' = nfeatures + 1
    /\ FeatureDone(feature,
                   IF IsEmpty(feature.geometry)
                   THEN [Store EXCEPT !.empty_geometries = @ + 1]
                   ELSE importFeature(Store, feature, clipping, outcome))
    /\ UNCHANGED << expvars, runvars, obsvars, georef, map_srs, cfgvars, dsvars, layvars, impvars >>

\* OGR_L_GetNextFeature returns no further feature.
ImportLayerEnd ==
    /\ pc = "layer"
    /\ pc' = "done"
    /\ UNCHANGED << expvars, runvars, symvars, obsvars, cntvars, geovars, srsvars, cfgvars, dsvars, docvars,
                    cur_layer, clipping, impvars, featvars >>

\* Georeferencing(): a local georeferencing.  The centre of an
\* orthographic projection is kept apart from the text of the CRS, in
\* thousandths of a degree.
Georeferencing ==
    [state |-> "Local", crs_id |-> "", projected_crs |-> "", ref_point |-> << 0, 0 >>,
     lat_0 |-> 0, lon_0 |-> 0, scale_denominator |-> 1000, declination |-> 0,
     combined_scale_factor |-> 1]

\* The georeferencing of a map that is not georeferenced.
LocalGeoref ==
    [Georeferencing EXCEPT !.scale_denominator = 15000, !.declination = 3]

----------------------------------------------------------------------------
(* The SRS of the map: srsFromMap, AverageCoords, importGeoreferencing.     *)

\* OSRImportFromProj4: the SRS a PROJ.4 text describes, none on error.
ImportFromProj4(spec) ==
    CASE spec = "+proj=utm" -> 3
      [] spec = "+proj=tmerc" -> 6
      [] spec = "+proj=ortho" -> OrthographicSrs
      [] OTHER -> Null

\* OgrFileImport::srsFromMap: the SRS of a georeferenced map, a local SRS
\* otherwise; a text which cannot be imported is warned about.
srsFromMap(g) ==
    IF g.state = "Geospatial" /\ ImportFromProj4(g.projected_crs) # Null
    THEN [ret |-> ImportFromProj4(g.projected_crs), warnings |-> 0]
    ELSE [ret |-> LocalSrs, warnings |-> IF g.state = "Geospatial" THEN 1 ELSE 0]

\* AverageCoords(): x = 0, y = 0, num_coords = 0.
NoCoords == [x |-> 0, y |-> 0, num_coords |-> 0]

\* AverageCoords::handleGeometry for a point or a line string, from point
\* i on.
RECURSIVE AddPoints(_, _, _)
AddPoints(geometry, i, acc) ==
    IF i > Len(geometry.points) THEN acc
    ELSE AddPoints(geometry, i + 1,
                   [x |-> acc.x + GetXY(geometry, i)[1],
                    y |-> acc.y + GetXY(geometry, i)[2],
                    num_coords |-> acc.num_coords + 1])

RECURSIVE handleGeometry(_, _)
RECURSIVE HandleGeometries(_, _, _)

\* A handleGeometry which does not look into polygons and collections.
handleGeometryFlat(geometry, acc) ==
    IF geometry.type \in { "Point", "LineString" }
    THEN AddPoints(geometry, 1, acc)
    ELSE acc

\* AverageCoords::handleGeometry.
handleGeometry(geometry, acc) ==
    CASE geometry.type \in { "Point", "LineString" } ->
             AddPoints(geometry, 1, acc)
      [] geometry.type \in { "Polygon", "MultiPoint", "MultiLineString", "MultiPolygon",
                             "GeometryCollection" } ->
             HandleGeometries(geometry, 1, acc)
      [] OTHER -> acc

\* The loop of handleGeometry over the members, from member i on.
HandleGeometries(geometry, i, acc) ==
    IF i > Len(geometry.geoms) THEN acc
    ELSE HandleGeometries(geometry, i + 1, handleGeometry(geometry.geoms[i], acc))

\* The loop of AverageCoords over the features of a layer, from feature i
\* on: empty geometries and failed transformations are skipped.
RECURSIVE AverageFeatures(_, _, _, _)
AverageFeatures(layer, t, i, acc) ==
    IF i > Len(layer.features) THEN acc
    ELSE AverageFeatures(layer, t, i + 1,
                         IF \/ IsEmpty(layer.features[i].geometry)
                            \/ layer.features[i].transform_error
                         THEN acc
                         ELSE handleGeometry(
                                  TransformGeometry(layer.features[i].geometry, t), acc))

\* The loop of AverageCoords over the layers, from layer i on: layers
\* without SRS or without transformation are skipped.
RECURSIVE AverageLayers(_, _, _, _)
AverageLayers(ds, srs, i, acc) ==
    IF i > Len(ds) THEN acc
    ELSE AverageLayers(ds, srs, i + 1,
                       IF ds[i].srs = Null \/ ~CanTransform(ds[i].srs, srs)
                       THEN acc
                       ELSE AverageFeatures(ds[i],
                                            NewCoordinateTransformation(ds[i].srs, srs),
                                            1, acc))

\* AverageCoords::operator QPointF: the quotients x / num_coords and
\* y / num_coords as fractions with the denominator d; the origin when
\* there is no coordinate.
ToQPointF(acc) ==
    IF acc.num_coords # 0
    THEN [x |-> acc.x, y |-> acc.y, d |-> acc.num_coords]
    ELSE [x |-> 0, y |-> 0, d |-> 1]

\* OgrFileImport::calcAverageCoords.
calcAverageCoords(ds, srs) == ToQPointF(AverageLayers(ds, srs, 1, NoCoords))

\* OgrFileImport::calcAverageLatLon.
calcAverageLatLon(ds) == calcAverageCoords(ds, GeographicSrs)

\* std::round of num / den, den > 0: to the nearest integer, halves away
\* from zero.
Round(num, den) ==
    IF num >= 0 THEN (2 * num + den) \div (2 * den)
    ELSE -((2 * (-num) + den) \div (2 * den))

\* qRound of num / den, den > 0: to the nearest integer, halves upwards.
qRound(num, den) == (2 * num + den) \div (2 * den)

\* The locals of importGeoreferencing before the loop.
NoScan ==
    [no_srs |-> TRUE, local_srs |-> Null, suitable_srs |-> Null,
     projected_srs_spec |-> NullStr, warnings |-> 0]

RECURSIVE ScanLayers(_, _, _)

\* A loop of importGeoreferencing which passes over an SRS that cannot be
\* transformed as over a layer without SRS.
ScanLayersPassUnreachable(ds, i, scan) ==
    IF i > Len(ds) THEN scan
    ELSE IF ds[i].srs = Null THEN ScanLayers(ds, i + 1, scan)
    ELSE IF Srs(ds[i].srs).local
    THEN ScanLayers(ds, i + 1,
                    [scan EXCEPT !.no_srs = FALSE,
                                 !.local_srs = IF @ = Null THEN ds[i].srs ELSE @])
    ELSE IF ~CanTransform(ds[i].srs, OrthographicSrs)
    THEN ScanLayers(ds, i + 1, scan)
    ELSE IF Srs(ds[i].srs).projected /\ Srs(ds[i].srs).proj4 # NullStr
    THEN [scan EXCEPT !.no_srs = FALSE,
                      !.projected_srs_spec = Srs(ds[i].srs).proj4,
                      !.suitable_srs = ds[i].srs]
    ELSE ScanLayers(ds, i + 1,
                    [scan EXCEPT !.no_srs = FALSE,
                                 !.suitable_srs = IF @ = Null THEN ds[i].srs ELSE @])

\* The loop of importGeoreferencing over the layers, from layer i on: the
\* first projected SRS with a PROJ.4 text ends the loop; otherwise the first
\* SRS which can be transformed is the suitable one.
ScanLayers(ds, i, scan) ==
    IF i > Len(ds) THEN scan
    ELSE IF ds[i].srs = Null THEN ScanLayers(ds, i + 1, scan)
    ELSE IF Srs(ds[i].srs).local
    THEN ScanLayers(ds, i + 1,
                    [scan EXCEPT !.no_srs = FALSE,
                                 !.local_srs = IF @ = Null THEN ds[i].srs ELSE @])
    ELSE IF ~CanTransform(ds[i].srs, OrthographicSrs)
    THEN ScanLayers(ds, i + 1,
                    [scan EXCEPT !.no_srs = FALSE, !.warnings = @ + 1])
    ELSE IF Srs(ds[i].srs).projected /\ Srs(ds[i].srs).proj4 # NullStr
    THEN [scan EXCEPT !.no_srs = FALSE,
                      !.projected_srs_spec = Srs(ds[i].srs).proj4,
                      !.suitable_srs = ds[i].srs]
    ELSE ScanLayers(ds, i + 1,
                    [scan EXCEPT !.no_srs = FALSE,
                                 !.suitable_srs = IF @ = Null THEN ds[i].srs ELSE @])

\* importGeoreferencing with a projected SRS: the CRS of the map is the
\* PROJ.4 text, the reference point the rounded centre.
ProjectedGeoreferencing(g, scan, center) ==
    [georef |-> [g EXCEPT !.state = "Geospatial",
                          !.crs_id = "PROJ.4",
                          !.projected_crs = scan.projected_srs_spec,
                          !.ref_point = << Round(center.x, center.d),
                                           Round(center.y, center.d) >>],
     ret |-> scan.suitable_srs, thrown |-> FALSE, warnings |-> scan.warnings]

\* The orthographic georeferencing around the rounded centre.
OrthoGeoref(g, center) ==
    [Georeferencing EXCEPT !.state = "Geospatial",
                           !.scale_denominator = g.scale_denominator,
                           !.projected_crs = "+proj=ortho",
                           !.lat_0 = qRound(1000 * center.y, center.d),
                           !.lon_0 = qRound(1000 * center.x, center.d),
                           !.declination = g.declination]

\* importGeoreferencing with a new georeferencing g of the map, returning
\* the SRS of the map.
GeoreferencingFromMap(g, scan, from_map) ==
    [georef |-> g, ret |-> from_map.ret, thrown |-> FALSE,
     warnings |-> scan.warnings + from_map.warnings]

\* The local georeferencing of importGeoreferencing.
LocalGeoreferencing(g) ==
    [Georeferencing EXCEPT !.scale_denominator = g.scale_denominator,
                           !.declination = g.declination]

\* importGeoreferencing after the loop.
GeoreferencingFromScan(g, ds, scan) ==
    IF scan.projected_srs_spec # NullStr
    THEN ProjectedGeoreferencing(g, scan, calcAverageCoords(ds, scan.suitable_srs))
    ELSE IF scan.suitable_srs # Null
    THEN GeoreferencingFromMap(OrthoGeoref(g, calcAverageLatLon(ds)), scan,
                               srsFromMap(OrthoGeoref(g, calcAverageLatLon(ds))))
    ELSE IF scan.local_srs # Null
    THEN [georef |-> LocalGeoreferencing(g), ret |-> scan.local_srs, thrown |-> FALSE,
          warnings |-> scan.warnings]
    ELSE IF scan.no_srs
    THEN GeoreferencingFromMap(LocalGeoreferencing(g), scan,
                               srsFromMap(LocalGeoreferencing(g)))
    ELSE [georef |-> g, ret |-> Null, thrown |-> TRUE, warnings |-> scan.warnings]

\* OgrFileImport::importGeoreferencing.
importGeoreferencing(g, ds) == GeoreferencingFromScan(g, ds, ScanLayers(ds, 1, NoScan))

\* The state after importGeoreferencing returned r, or threw.
Georeferenced(r) ==
    /\ georef' = r.georef
    /\ map_srs' = IF r.thrown THEN map_srs ELSE r.ret
    /\ warnings' = warnings + r.warnings
    /\ pc' = IF r.thrown THEN "failed" ELSE "georeferenced"

\* importImplementation with georeferencing_import_enabled: map_srs =
\* importGeoreferencing(data_source).
ImportGeoreferencingCall ==
    /\ pc = "idle"
    /\ Georeferenced(importGeoreferencing(georef, data_source))
    /\ UNCHANGED << expvars, runvars, symvars, obsvars, cntvars, to_map_coord, data_srs, data_transform, applied,
                    cfgvars, data_source, docvars, cur_layer, clipping, impvars,
                    featvars >>

\* The counters as importImplementation resets them.
InitCounters ==
    /\ empty_geometries = 0
    /\ no_transformation = 0
    /\ failed_transformation = 0
    /\ unsupported_geometry_type = 0
    /\ too_few_coordinates = 0

\* The caches of an importer which has imported nothing.
InitEmptyCaches ==
    /\ colors = EmptyHash
    /\ point_symbols = EmptyHash
    /\ line_symbols = EmptyHash
    /\ area_symbols = EmptyHash
    /\ text_symbols = EmptyHash
    /\ ncalls = 0
    /\ sym_ret = EmptyHash
    /\ sym_added = EmptyHash
    /\ sym_tool = EmptyHash
    /\ col_ret = EmptyHash
    /\ col_calls = EmptyHash
    /\ last = NoCall
    /\ nimports = 0
    /\ last_geom = NoImport
    /\ nfeatures = 0
    /\ last_feature = NoFeature

InitCaches ==
    /\ map_colors = InitColors
    /\ map_symbols = InitSymbols
    /\ InitEmptyCaches

\* The importer before the first layer: no transformation, an empty map
\* part.
\* nullptr of a const char*.
NullId == [null |-> TRUE, prefix |-> FALSE, name |-> ""]

\* No exporter is at work.
\* No symbol has been chosen for an export and no layer has been created.
InitNoLayers ==
    /\ export_symbols = << >>
    /\ layer_pos = 0
    /\ po_layers = << >>

InitNoExport ==
    /\ per_symbol_layers = FALSE
    /\ format_id = NullId
    /\ driver_id = NullId
    /\ quirks = {}
    /\ transformation = NoTransformation
    /\ po_ds = "none"
    /\ symbol_field = NullStr
    /\ o_name_field = NullStr
    /\ po_features = << >>
    /\ export_pc = "idle"
    /\ thrown = "none"
    /\ InitNoLayers

\* No import is under way.
\* The name of the part of a new map.
DefaultPartName == "default part"

\* An importer which has imported nothing, and a map with its first part.
InitIdleImport ==
    /\ data_srs = Null
    /\ data_transform = NoTransformation
    /\ applied = {}
    /\ templates = 0
    /\ warnings = 0
    /\ lpos = 0
    /\ fpos = 0
    /\ import_result = "none"
    /\ reported = << >>
    /\ attempted = << >>
    /\ pc = "idle"
    /\ cur_layer = NoLayer
    /\ clipping = NoClipping
    /\ part_names = << DefaultPartName >>
    /\ layer_parts = << >>

InitIdle ==
    /\ InitIdleImport
    /\ separate_layers = FALSE

InitLayers ==
    /\ InitNoExport
    /\ InitIdle
    /\ map_part = << >>

InitImport ==
    /\ InitCaches
    /\ InitCounters
    /\ InitLayers
    /\ data_source = << >>
    /\ to_map_coord = "fromProjected"
    /\ georef = LocalGeoref
    /\ map_srs = 1
    /\ unit_type = "UnitOnGround"
    /\ clip_layers = FALSE
    /\ driver_name = "GPX"

vars == << symvars, obsvars, cntvars, geovars, srsvars, cfgvars, docvars, dsvars,
           expvars, runvars, layvars, impvars, featvars >>

Init == InitImport

Next == \E rq \in Requests : GetSymbolCall(rq[1], rq[2])

Spec == Init /\ [][Next]_vars

----------------------------------------------------------------------------
(* Style strings written by makeStyleString and read back by getSymbol.     *)

\* The style string of the k-th symbol as getSymbol receives it.
ExportedStyle(k) == Style(0, << 40 + k >>)

\* getSymbol with the style string written for a symbol, requested with the
\* type of that symbol.
DecodeExported(k) == GetSymbolCall(RoundTripSymbols[k].type, ExportedStyle(k))

NextRoundTrip == \E k \in 1..Len(RoundTripSymbols) : DecodeExported(k)

SpecRoundTrip == InitImport /\ [][NextRoundTrip]_vars

----------------------------------------------------------------------------
(* The geometry importer on the geometries of a data source.                *)

\* All sequences over S of length up to n.
SeqsUpTo(S, n) == UNION { [1..k -> S] : k \in 0..n }

LineStrings == { LineString(p) : p \in SeqsUpTo({ << 1, 1 >>, << 3, 1 >> }, MaxPoints) }

OuterRings ==
    { << << 1, 1 >>, << 3, 1 >> >>,
      << << 1, 1 >>, << 3, 1 >>, << 3, 4 >> >>,
      << << 1, 1 >>, << 3, 1 >>, << 3, 4 >>, << 1, 1 >> >> }

HoleRings == { << >>, << << 2, 2 >> >>, << << 2, 2 >>, << 3, 2 >>, << 2, 2 >> >> }

Polygons ==
    { Polygon(<< >>) }
    \cup { Polygon(<< o >> \o h) : o \in OuterRings, h \in SeqsUpTo(HoleRings, MaxHoles) }

CircularString == Geometry("CircularString", << << 1, 1 >>, << 3, 1 >>, << 3, 4 >> >>, << >>)

Collections ==
    { Collection("MultiLineString",
                 << LineString(<< << 1, 1 >>, << 3, 1 >> >>), LineString(<< << 1, 1 >> >>) >>),
      Collection("GeometryCollection",
                 << PointGeometry(<< << 1, 1 >> >>),
                    Polygon(<< << << 1, 1 >>, << 3, 1 >>, << 3, 4 >> >> >>),
                    CircularString >>),
      Collection("GeometryCollection",
                 << Collection("MultiPoint",
                               << PointGeometry(<< << 1, 1 >> >>), PointGeometry(<< >>) >>) >>) }

\* The features the geometry importer is called with.
GeomFeatures ==
    { Feature(g, s, << >>) : g \in LineStrings, s \in { EmptyStyle, Style(0, <<1>>) } }
    \cup { Feature(g, Style(0, <<3>>), << >>) : g \in Polygons }
    \cup { Feature(Polygon(<< o >>), EmptyStyle, << >>) : o \in OuterRings }
    \cup { Feature(PointGeometry(<< << 3, 4 >> >>), s, << >>) :
               s \in { EmptyStyle, Style(0, <<5>>), Style(0, <<8>>), Style(0, <<9>>) } }
    \cup { Feature(PointGeometry(<< << 3, 4 >> >>), Style(0, <<9>>),
                   << [name |-> << "n" >>, value |-> v] >>) : v \in { << >>, << "V" >> } }
    \cup { Feature(g, Style(0, <<1>>), << >>) : g \in Collections \cup { CircularString } }

\* The map's georeferencing with a projected reference point.
ProjectedGeoref ==
    [LocalGeoref EXCEPT !.state = "Geospatial", !.crs_id = "PROJ.4",
                        !.projected_crs = "+proj=utm", !.ref_point = << 1, 2 >>,
                        !.combined_scale_factor = 2]

\* The importer as setSRS leaves it for a feature: coordinates go through
\* fromProjected, or through fromDrawing for on-paper units without SRS.
InitGeom ==
    /\ InitCaches
    /\ InitCounters
    /\ InitLayers
    /\ data_source = << >>
    /\ to_map_coord \in { "fromProjected", "fromDrawing" }
    /\ georef = ProjectedGeoref
    /\ map_srs = 3
    /\ unit_type = "UnitOnGround"
    /\ clip_layers = FALSE
    /\ driver_name = "GPX"

NextGeom == \E feature \in GeomFeatures : ImportGeometryCall(feature)

SpecGeom == InitGeom /\ [][NextGeom]_vars

\* A point with a label of every anchor, the anchors beyond 1..12 included.
LabelFeature(anchor, point) ==
    Feature(PointGeometry(<< point >>), Style(0, << 20 + anchor >>), << >>)

LabelPoints == { << 1, 1 >>, << 3, 4 >> }

NextLabel ==
    \E anchor \in 0..MaxAnchor, point \in LabelPoints :
        ImportGeometryCall(LabelFeature(anchor, point))

SpecLabel == InitGeom /\ [][NextLabel]_vars

\* Points with a label of every label tool, the field n being absent,
\* empty, a text, or an escape sequence only.
LabelTextFeatures ==
    { Feature(PointGeometry(<< << 3, 4 >> >>), Style(0, << 60 + i >>), fields) :
          i \in 1..Len(LabelTools),
          fields \in { << >>,
                       << [name |-> << "n" >>, value |-> << >>] >>,
                       << [name |-> << "n" >>, value |-> << "V" >>] >>,
                       << [name |-> << "n" >>, value |-> << "\\", "f", ";" >>] >> } }

NextLabelText == \E feature \in LabelTextFeatures : ImportGeometryCall(feature)

SpecLabelText == InitGeom /\ [][NextLabelText]_vars

----------------------------------------------------------------------------
(* importLayer on one layer of a data source.                               *)

\* The layers: without SRS, with the SRS of the map, with another SRS that
\* can be transformed, with one that cannot; with and without extent.
Layers ==
    { [srs |-> s, has_extent |-> TRUE, fast_extent |-> TRUE,
       extent |-> [lo |-> << 0, 0 >>, hi |-> << 4, 4 >>],
       extent_transform_error |-> FALSE] : s \in { Null, 3, 2, 5 } }
    \cup { [srs |-> 3, has_extent |-> TRUE, fast_extent |-> TRUE,
            extent |-> [lo |-> << 0, 0 >>, hi |-> << 4, 4 >>],
            extent_transform_error |-> TRUE],
           [srs |-> Null, has_extent |-> TRUE, fast_extent |-> FALSE,
            extent |-> [lo |-> << 0, 0 >>, hi |-> << 4, 4 >>],
            extent_transform_error |-> FALSE],
           [srs |-> 3, has_extent |-> FALSE, fast_extent |-> TRUE,
            extent |-> [lo |-> << 0, 0 >>, hi |-> << 0, 0 >>],
            extent_transform_error |-> FALSE] }

\* The features of a layer, in the coordinates of the layer: points and
\* labels inside the extent, just outside and far outside, a line, an
\* area, an overlay with its icon, an empty geometry, and a rotated point
\* with a field of the name of the rotation tag.
BaseFeatures ==
    { Feature(PointGeometry(<< << x, 2 >> >>), s, << >>) :
          x \in { 2, 5, 9 }, s \in { EmptyStyle, Style(0, <<5>>) } }
    \cup { Feature(Collection("MultiPoint", << PointGeometry(<< << 2, 2 >> >>),
                                               PointGeometry(<< << 5, 2 >> >>) >>),
                   s, << >>) : s \in { Style(0, <<8>>), Style(0, <<5>>) } }
    \cup { Feature(LineString(<< << 1, 1 >>, << 3, 1 >> >>), Style(0, <<1>>), << >>),
           Feature(Polygon(<< << << 1, 1 >>, << 3, 1 >>, << 3, 4 >> >> >>),
                   Style(0, <<3>>), << >>),
           [Feature(LineString(<< << 0, 0 >>, << 4, 0 >>, << 4, 4 >>, << 0, 4 >>,
                                  << 0, 0 >> >>),
                    EmptyStyle, << [name |-> ICON, value |-> << "i" >>] >>)
               EXCEPT !.icon_exists = TRUE],
           Feature(PointGeometry(<< >>), EmptyStyle, << >>),
           Feature(PointGeometry(<< << 2, 2 >> >>), Style(0, <<8>>),
                   << [name |-> << "R", "o", "t", "a", "t", "i", "o", "n" >>,
                       value |-> << "7" >>],
                      [name |-> << "n" >>, value |-> << "V" >>],
                      [name |-> << "e" >>, value |-> << >>] >>) }

\* The geometries of a layer carry the SRS of the layer; the
\* transformation can fail on a geometry.
LayerFeatures(layer) ==
    { [f EXCEPT !.srs = layer.srs] : f \in BaseFeatures }
    \cup { [Feature(PointGeometry(<< << 2, 2 >> >>), EmptyStyle, << >>)
               EXCEPT !.srs = layer.srs, !.transform_error = layer.srs # Null] }

\* The import options and the driver of the data source.
ImportOptions ==
    { << "UnitOnGround", TRUE, "GPX" >>, << "UnitOnPaper", TRUE, "LIBKML" >>,
      << "UnitOnGround", FALSE, "LIBKML" >> }

InitLayer ==
    /\ InitCaches
    /\ InitCounters
    /\ InitLayers
    /\ data_source = << >>
    /\ to_map_coord = "fromProjected"
    /\ georef = ProjectedGeoref
    /\ map_srs = 3
    /\ \E o \in ImportOptions :
           /\ unit_type = o[1]
           /\ clip_layers = o[2]
           /\ driver_name = o[3]

NextLayer ==
    \/ \E layer \in Layers : ImportLayerBegin(layer)
    \/ \E feature \in LayerFeatures(cur_layer), outcome \in ClipOutcomes :
           ImportLayerFeature(feature, outcome)
    \/ ImportLayerEnd

SpecLayer == InitLayer /\ [][NextLayer]_vars

----------------------------------------------------------------------------
(* Properties of the symbol and colour caches.                              *)

DefaultSymbol(type) ==
    CASE type = "Point" -> default_point_symbol
      [] type = "Line" -> default_line_symbol
      [] type = "Area" -> default_area_symbol

\* C1: within one import, every call getSymbol(type, K) with the same type
\* and the same style string K returns one and the same symbol, whatever
\* was requested in between, and those calls add at most one symbol to the
\* document.
C1_SameKeySameSymbol ==
    \A k \in DOMAIN sym_ret :
        /\ Cardinality(sym_ret[k]) = 1
        /\ sym_added[k] <= 1

\* A key is requested, creating its symbol; another key is requested; the
\* first key is requested again and resolves to the symbol created for it.
C1_Witness ==
    /\ ncalls = 3
    /\ last.existed
    /\ last.ret > Len(InitSymbols)
    /\ sym_added[<<last.type, last.key>>] = 1
    /\ last.prev # <<last.type, last.key>>
    /\ sym_added[last.prev] = 1

\* C2 as stated: two calls with the same type and byte-different style
\* strings return distinct symbols unless both return the default symbol.
C2_DistinctKeysDistinctSymbols ==
    \A k1 \in DOMAIN sym_ret, k2 \in DOMAIN sym_ret :
        (k1[1] = k2[1] /\ k1[2] # k2[2]) =>
            \A s1 \in sym_ret[k1], s2 \in sym_ret[k2] :
                s1 # s2 \/ s1 = DefaultSymbol(k1[1])

\* The tools of a style string that yield a symbol of the requested type:
\* pens for lines, brushes for areas; for points a brush, pen or symbol tool
\* with a colour, or a label with a text.
Yields(type, t) ==
    CASE type = "Line" -> Tool(t).type = "Pen"
      [] type = "Area" -> Tool(t).type = "Brush"
      [] type = "Point" ->
            \/ Tool(t).type \in {"Brush", "Pen", "Symbol"} /\ Tool(t).color # NullStr
            \/ Tool(t).type = "Label" /\ Tool(t).text # NullText

\* The text under which the first yielding tool of a style string is cached:
\* its own style text, or colour and size strings joined for a label.
FirstYielding(type, style) ==
    LET idx == { i \in 1..Len(style.tools) : Yields(type, style.tools[i]) }
    IN  IF idx = {} THEN <<"none">>
        ELSE LET t == style.tools[CHOOSE i \in idx : \A j \in idx : i <= j]
             IN  IF Tool(t).type = "Label"
                 THEN <<"label", Bytes(Tool(t).color) \o Bytes(Tool(t).size)>>
                 ELSE <<"tool", t>>

\* C2, amended: two calls with the same type and byte-different style
\* strings return distinct symbols unless both return the default symbol,
\* or the first tool yielding a symbol has the same text in both strings,
\* or, for labels, the same colour and size strings joined.
C2_DistinctUnlessSameTool ==
    \A k1 \in DOMAIN sym_ret, k2 \in DOMAIN sym_ret :
        (k1[1] = k2[1] /\ k1[2] # k2[2]) =>
            \A s1 \in sym_ret[k1], s2 \in sym_ret[k2] :
                \/ s1 # s2
                \/ s1 = DefaultSymbol(k1[1])
                \/ FirstYielding(k1[1], k1[2]) = FirstYielding(k2[1], k2[2])

\* Two byte-different style strings of one type have resolved to the same
\* symbol, which is not the default symbol.
C2_Witness ==
    \E k1 \in DOMAIN sym_ret, k2 \in DOMAIN sym_ret :
        /\ k1[1] = k2[1] /\ k1[2] # k2[2]
        /\ sym_ret[k1] = sym_ret[k2]
        /\ \E s \in sym_ret[k1] : s > Len(InitSymbols)

\* C3: over all makeColor calls of an import, every call with the same
\* colour string returns the same result (one colour, or always none), and
\* the document holds at most one colour made from that string.
C3_OneColorPerString ==
    \A c \in DOMAIN col_ret :
        /\ Cardinality(col_ret[c]) = 1
        /\ Cardinality({ i \in Len(InitColors) + 1 .. Len(map_colors) :
                            map_colors[i].name = c }) <= 1

\* makeColor was called at least twice with a colour string, and the
\* document holds the one colour made from it.
C3_Witness ==
    \E c \in DOMAIN col_ret :
        /\ col_calls[c] >= 2
        /\ \E i \in Len(InitColors) + 1 .. Len(map_colors) : map_colors[i].name = c

\* C4: getSymbol never returns null; for Line it returns a line symbol, for
\* Area an area symbol, for Point a point or a text symbol.
C4_TypeOfResult ==
    \A k \in DOMAIN sym_ret : \A s \in sym_ret[k] :
        /\ s # Null
        /\ s \in 1..Len(map_symbols)
        /\ CASE k[1] = "Line" -> map_symbols[s].type = "Line"
             [] k[1] = "Area" -> map_symbols[s].type = "Area"
             [] k[1] = "Point" -> map_symbols[s].type \in {"Point", "Text"}

\* All three types were requested: a point request gave a text symbol, and
\* the line and area requests fell back to their default symbols.
C4_Witness ==
    /\ \E k \in DOMAIN sym_ret : k[1] = "Point" /\
           \E s \in sym_ret[k] : map_symbols[s].type = "Text"
    /\ \E k \in DOMAIN sym_ret : k[1] = "Line" /\ default_line_symbol \in sym_ret[k]
    /\ \E k \in DOMAIN sym_ret : k[1] = "Area" /\ default_area_symbol \in sym_ret[k]

\* C5 as stated: a getSymbol call that resolves to a symbol created earlier
\* leaves all attributes of that symbol unchanged, its description included.
C5_CacheHitChangesNothing ==
    (last.existed /\ last.ret > Len(InitSymbols)) =>
        map_symbols[last.ret] = last.before

\* C5, amended: a getSymbol call that resolves to a symbol created earlier
\* leaves all of its attributes but the description unchanged; the
\* description is unchanged too unless the symbol is a text symbol, whose
\* description getSymbolForLabel sets on every call.
C5_CacheHitChangesOnlyLabelDescription ==
    (last.existed /\ last.ret > Len(InitSymbols)) =>
        /\ [map_symbols[last.ret] EXCEPT !.description = last.before.description]
               = last.before
        /\ map_symbols[last.ret].type # "Text" =>
               map_symbols[last.ret].description = last.before.description

\* A call resolved to a text symbol created earlier and changed its
\* description.
C5_Witness ==
    /\ last.existed /\ last.ret > Len(InitSymbols)
    /\ map_symbols[last.ret].type = "Text"
    /\ map_symbols[last.ret].description # last.before.description

----------------------------------------------------------------------------
(* Properties of the geometry importer.                                     *)

\* The map coordinate of a source point under the conversion in force.
MapCoordOf(p) ==
    IF to_map_coord = "fromDrawing" THEN << p[1], -p[2] >>
    ELSE << p[1] - georef.ref_point[1], georef.ref_point[2] - p[2] >>

MapCoordsOf(points) == [i \in 1..Len(points) |-> MapCoordOf(points[i])]

\* C7: importLineStringGeometry on a line string with fewer than 2 points
\* returns no object and increments too_few_coordinates by exactly 1; with
\* n >= 2 points it returns a path object with exactly one part that holds
\* the n coordinates in source order, and leaves every counter unchanged.
C7_LineStringImport ==
    last_geom.feature.geometry.type = "LineString" =>
        IF Len(last_geom.feature.geometry.points) < 2
        THEN /\ last_geom.objects = << >>
             /\ Counters = [last_geom.before EXCEPT !.too_few_coordinates = @ + 1]
        ELSE /\ Len(last_geom.objects) = 1
             /\ last_geom.objects[1].type = "Path"
             /\ Len(last_geom.objects[1].parts) = 1
             /\ last_geom.objects[1].parts[1].coords
                    = MapCoordsOf(last_geom.feature.geometry.points)
             /\ Counters = last_geom.before

\* A line string of three points was imported after one was dropped.
C7_Witness ==
    /\ last_geom.feature.geometry.type = "LineString"
    /\ Len(last_geom.feature.geometry.points) = 3
    /\ last_geom.feature.geometry.points[1] # last_geom.feature.geometry.points[2]
    /\ Len(last_geom.objects) = 1
    /\ too_few_coordinates = 1

\* The polygon of the last call is dropped: no ring, or an outer ring of
\* fewer than 3 points.
PolygonDropped ==
    \/ Len(last_geom.feature.geometry.geoms) < 1
    \/ Len(last_geom.feature.geometry.geoms[1].points) < 3

\* The hole rings of the last polygon that have at least one point.
NonEmptyHoles ==
    { g \in 2..Len(last_geom.feature.geometry.geoms) :
          Len(last_geom.feature.geometry.geoms[g].points) > 0 }

\* C8 as stated: a polygon without a ring or with an outer ring of fewer
\* than 3 points is dropped and counted; otherwise an outer ring plus k
\* hole rings give a path of k+1 parts, the first being the outer ring,
\* every part closed.
C8_PolygonPartPerRing ==
    last_geom.feature.geometry.type = "Polygon" =>
        IF PolygonDropped
        THEN /\ last_geom.objects = << >>
             /\ too_few_coordinates = last_geom.before.too_few_coordinates + 1
        ELSE /\ Len(last_geom.objects) = 1
             /\ last_geom.objects[1].type = "Path"
             /\ Len(last_geom.objects[1].parts) = Len(last_geom.feature.geometry.geoms)
             /\ SubSeq(last_geom.objects[1].parts[1].coords, 1,
                       Len(last_geom.feature.geometry.geoms[1].points))
                    = MapCoordsOf(last_geom.feature.geometry.geoms[1].points)
             /\ \A i \in 1..Len(last_geom.objects[1].parts) :
                    last_geom.objects[1].parts[i].closed

\* C8, amended: the path has one part for the outer ring and one for every
\* hole ring that has at least one point; a hole ring without points adds
\* no part.
C8_PolygonPartPerNonEmptyRing ==
    last_geom.feature.geometry.type = "Polygon" =>
        IF PolygonDropped
        THEN /\ last_geom.objects = << >>
             /\ too_few_coordinates = last_geom.before.too_few_coordinates + 1
        ELSE /\ Len(last_geom.objects) = 1
             /\ last_geom.objects[1].type = "Path"
             /\ Len(last_geom.objects[1].parts) = 1 + Cardinality(NonEmptyHoles)
             /\ SubSeq(last_geom.objects[1].parts[1].coords, 1,
                       Len(last_geom.feature.geometry.geoms[1].points))
                    = MapCoordsOf(last_geom.feature.geometry.geoms[1].points)
             /\ \A i \in 1..Len(last_geom.objects[1].parts) :
                    /\ last_geom.objects[1].parts[i].closed
                    /\ last_geom.objects[1].parts[i].coords[1]
                           = last_geom.objects[1].parts[i].coords[
                                 Len(last_geom.objects[1].parts[i].coords)]

\* A polygon with an open outer ring, an empty hole ring and a hole ring
\* of three points was imported as a path of two parts.
C8_Witness ==
    /\ last_geom.feature.geometry.type = "Polygon"
    /\ Len(last_geom.feature.geometry.geoms) = 3
    /\ Len(last_geom.feature.geometry.geoms[1].points) = 3
    /\ Cardinality(NonEmptyHoles) = 1
    /\ Len(last_geom.objects) = 1
    /\ Len(last_geom.objects[1].parts) = 2

----------------------------------------------------------------------------
(* importGeoreferencing on a data source.                                   *)

\* The features of the layers, in the coordinates of the layer: single
\* points, lines, polygons with a hole, nested collections, a curve, empty
\* geometries and geometries which cannot be transformed.
FeatureLists ==
    << << Feature(PointGeometry(<< << 1, 0 >> >>), EmptyStyle, << >>) >>,
       << Feature(LineString(<< << 0, 0 >>, << 3, 1 >> >>), EmptyStyle, << >>),
          Feature(PointGeometry(<< << -6, -3 >> >>), EmptyStyle, << >>) >>,
       << Feature(Polygon(<< << << 0, 0 >>, << 2, 0 >>, << 2, 2 >> >>,
                             << << 1, 0 >> >> >>), EmptyStyle, << >>),
          Feature(Geometry("CircularString", << << 9, 9 >>, << 9, 8 >> >>, << >>),
                  EmptyStyle, << >>) >>,
       << Feature(PointGeometry(<< >>), EmptyStyle, << >>),
          [Feature(PointGeometry(<< << 7, 7 >> >>), EmptyStyle, << >>)
              EXCEPT !.transform_error = TRUE] >>,
       << Feature(Collection("GeometryCollection",
                             << Collection("MultiPoint",
                                           << PointGeometry(<< << -1, 1 >> >>),
                                              PointGeometry(<< << -2, 1 >> >>) >>),
                                LineString(<< << 0, -4 >> >>) >>),
                  EmptyStyle, << >>) >> >>

\* The layers: the SRS and the features.
SourceLayer(srs, f) ==
    [srs |-> srs,
     features |-> [i \in 1..Len(FeatureLists[f]) |->
                      [FeatureLists[f][i] EXCEPT !.srs = srs]]]

SourceLayers ==
    { SourceLayer(l[1], l[2]) :
          l \in { << Null, 2 >>, << LocalSrs, 1 >>, << 2, 2 >>, << 2, 4 >>, << 3, 1 >>,
                  << 3, 3 >>, << 3, 4 >>, << 4, 2 >>, << 5, 1 >>, << 6, 2 >>, << 6, 5 >>,
                  << 3, 5 >> } }

DataSources == UNION { [1..n -> SourceLayers] : n \in 0..MaxLayers }

InitGeoref ==
    /\ InitCaches
    /\ InitCounters
    /\ InitLayers
    /\ data_source \in DataSources
    /\ to_map_coord = "fromProjected"
    /\ georef \in { LocalGeoref, ProjectedGeoref }
    /\ map_srs = Null
    /\ unit_type = "UnitOnGround"
    /\ clip_layers = FALSE
    /\ driver_name = "GPX"

NextGeoref == ImportGeoreferencingCall

SpecGeoref == InitGeoref /\ [][NextGeoref]_vars

----------------------------------------------------------------------------
\* Features of several objects with a field: a point and a line of one
\* geometry collection in both orders, two points, and a single point, with
\* a symbol tool that gives the point a rotation, and with a pen.
TagGeometries ==
    { Collection("GeometryCollection",
                 << PointGeometry(<< << 2, 2 >> >>),
                    LineString(<< << 1, 1 >>, << 3, 1 >> >>) >>),
      Collection("GeometryCollection",
                 << LineString(<< << 1, 1 >>, << 3, 1 >> >>),
                    PointGeometry(<< << 2, 2 >> >>) >>),
      Collection("MultiPoint", << PointGeometry(<< << 2, 2 >> >>),
                                  PointGeometry(<< << 3, 2 >> >>) >>),
      PointGeometry(<< << 2, 2 >> >>) }

TagFeatures(layer) ==
    { [Feature(g, s, << [name |-> << "n" >>, value |-> << "V" >>],
                        [name |-> << "e" >>, value |-> << >>] >>)
          EXCEPT !.srs = layer.srs] :
          g \in TagGeometries, s \in { Style(0, <<8>>), Style(0, <<1>>) } }

NextTags ==
    \/ \E layer \in Layers : ImportLayerBegin(layer)
    \/ \E feature \in TagFeatures(cur_layer), outcome \in ClipOutcomes :
           ImportLayerFeature(feature, outcome)
    \/ ImportLayerEnd

SpecTags == InitLayer /\ [][NextTags]_vars

----------------------------------------------------------------------------
(* importImplementation on a data source.                                   *)

\* OGROpen returns no data source: a warning, and the import has failed.
ImportOpenFailed ==
    /\ pc = "idle"
    /\ pc' = "done"
    /\ import_result' = "false"
    /\ warnings' = warnings + 1
    /\ UNCHANGED << expvars, symvars, obsvars, cntvars, geovars, srsvars, cfgvars, data_source,
                    docvars, lpos, fpos, reported, attempted, partvars, cur_layer, clipping,
                    impvars, featvars >>

\* The SRS of the map when the georeferencing is not imported.
GeoreferencingKept(g, from_map) ==
    [georef |-> g, ret |-> from_map.ret, thrown |-> FALSE, warnings |-> from_map.warnings]

\* The state after the SRS of the map was determined, or
\* importGeoreferencing threw.
ImportBegun(r) ==
    /\ georef' = r.georef
    /\ map_srs' = IF r.thrown THEN map_srs ELSE r.ret
    /\ warnings' = warnings + r.warnings
    /\ pc' = IF r.thrown THEN "failed" ELSE "layers"
    /\ import_result' = IF r.thrown THEN "exception" ELSE import_result
    /\ lpos' = 1

\* importImplementation up to the loop over the layers: the counters are
\* reset, and the SRS of the map is imported or taken from the map.
ImportBegin(georeferencing_import_enabled) ==
    /\ pc = "idle"
    /\ empty_geometries' = 0
    /\ no_transformation' = 0
    /\ failed_transformation' = 0
    /\ unsupported_geometry_type' = 0
    /\ too_few_coordinates' = 0
    /\ ImportBegun(IF georeferencing_import_enabled
                   THEN importGeoreferencing(georef, data_source)
                   ELSE GeoreferencingKept(georef, srsFromMap(georef)))
    /\ UNCHANGED << expvars, symvars, obsvars, to_map_coord, data_srs, data_transform, applied, cfgvars,
                    data_source, docvars, fpos, reported, attempted, partvars, cur_layer,
                    clipping, impvars, featvars >>

\* OGR_DS_GetLayer returns no layer, which is warned about, or the layer of
\* the track points of a GPX file.
IsSkipped(layer) == layer.null \/ layer.name = "track_points"

\* The loop over the layers at a layer which is not imported.
ImportLayerSkipped ==
    /\ pc = "layers"
    /\ lpos <= Len(data_source)
    /\ IsSkipped(data_source[lpos])
    /\ warnings' = warnings + (IF data_source[lpos].null THEN 1 ELSE 0)
    /\ lpos' = lpos + 1
    /\ UNCHANGED << expvars, symvars, obsvars, cntvars, geovars, srsvars, cfgvars, data_source,
                    docvars, fpos, import_result, reported, attempted, partvars, layvars,
                    impvars, featvars >>

\* part->getNumObjects() of the current part of the map: the objects
\* which the layers imported into this part have added.
CurrentPartObjects(objects, names, layers) ==
    IF \E i \in 1..Len(layers) : layers[i].part = Len(names)
    THEN Len(objects)
         - layers[CHOOSE i \in 1..Len(layers) :
                      /\ layers[i].part = Len(names)
                      /\ \A j \in 1..(i - 1) : layers[j].part # Len(names)].start
    ELSE 0

\* The parts of the map which keeps one part for all layers.
PartOfLayerShared(objects, names, layers, separate, name) == names

\* The parts of the map when the loop over the layers has chosen the part
\* of a layer: with the option "Separate layers" a current part without
\* objects gets the name of the layer, otherwise a new part of this name is
\* added and becomes the current part.
PartOfLayer(objects, names, layers, separate, name) ==
    IF ~separate THEN names
    ELSE IF CurrentPartObjects(objects, names, layers) = 0
    THEN [names EXCEPT ![Len(names)] = name]
    ELSE Append(names, name)

\* The loop over the layers at a layer which is imported: the part of the
\* layer, and importLayer up to the loop over the features.
ImportLayerEntered ==
    /\ pc = "layers"
    /\ lpos <= Len(data_source)
    /\ ~IsSkipped(data_source[lpos])
    /\ part_names' = PartOfLayer(map_part, part_names, layer_parts, separate_layers,
                                 data_source[lpos].name)
    /\ layer_parts' = Append(layer_parts,
                             [layer |-> lpos, part |-> Len(part_names'),
                              start |-> Len(map_part)])
    /\ pc' = "features"
    /\ fpos' = 1
    /\ cur_layer' = data_source[lpos]
    /\ LayerBegun(IF clip_layers /\ data_source[lpos].fast_extent
                  THEN getLayerClipping(Store, data_source[lpos])
                  ELSE [st |-> Store, ret |-> NoClipping])
    /\ UNCHANGED << expvars, symvars, obsvars, georef, map_srs, cfgvars, dsvars, docvars, lpos,
                    import_result, reported, attempted, separate_layers, impvars,
                    featvars >>

\* One iteration of the loop of importLayer in an import.
ImportFeatureStep(outcome) ==
    /\ pc = "features"
    /\ fpos <= Len(cur_layer.features)
    /\ fpos' = fpos + 1
    /\ attempted' = Append(attempted, << lpos, fpos >>)
    /\ FeatureDone(cur_layer.features[fpos],
                   IF IsEmpty(cur_layer.features[fpos].geometry)
                   THEN [Store EXCEPT !.empty_geometries = @ + 1]
                   ELSE importFeature(Store, cur_layer.features[fpos], clipping, outcome))
    /\ UNCHANGED << expvars, obsvars, georef, map_srs, cfgvars, dsvars, lpos, import_result, reported,
                    partvars, layvars, impvars, nfeatures >>

\* importLayer returns after the last feature.
ImportLayerLeft ==
    /\ pc = "features"
    /\ fpos > Len(cur_layer.features)
    /\ pc' = "layers"
    /\ lpos' = lpos + 1
    /\ UNCHANGED << expvars, symvars, obsvars, cntvars, geovars, srsvars, cfgvars, dsvars, docvars,
                    fpos, import_result, reported, attempted, partvars, cur_layer, clipping,
                    impvars, featvars >>

RECURSIVE NonZero(_, _)

\* A sequence of warnings which ends at the first counter which is not zero.
NonZeroFirst(names, counters) ==
    IF Len(names) = 0 THEN << >>
    ELSE IF counters[Head(names)] # 0 THEN << Head(names) >>
    ELSE NonZero(Tail(names), counters)

\* The counters which are not zero, in the order of the warnings.
NonZero(names, counters) ==
    IF Len(names) = 0 THEN << >>
    ELSE (IF counters[Head(names)] # 0 THEN << Head(names) >> ELSE << >>)
         \o NonZero(Tail(names), counters)

CounterNames ==
    << "empty_geometries", "no_transformation", "failed_transformation",
       "unsupported_geometry_type", "too_few_coordinates" >>

\* importImplementation after the loop over the layers: a warning for every
\* counter which is not zero, and the import has succeeded.
ImportFinished ==
    /\ pc = "layers"
    /\ lpos > Len(data_source)
    /\ pc' = "done"
    /\ import_result' = "true"
    /\ reported' = reported \o NonZero(CounterNames, Counters)
    /\ warnings' = warnings + Len(NonZero(CounterNames, Counters))
    /\ UNCHANGED << expvars, symvars, obsvars, cntvars, geovars, srsvars, cfgvars, data_source,
                    docvars, lpos, fpos, attempted, partvars, cur_layer, clipping, impvars,
                    featvars >>

\* The features of the layers of an imported data source: empty geometries,
\* unsupported geometries, too short lines, failing transformations, and
\* points and lines which are imported.
GoodPoint == Feature(PointGeometry(<< << 2, 2 >> >>), EmptyStyle, << >>)
GoodLine == Feature(LineString(<< << 1, 1 >>, << 3, 1 >> >>), Style(0, <<1>>), << >>)
EmptyPoint == Feature(PointGeometry(<< >>), EmptyStyle, << >>)
ShortLine == Feature(LineString(<< << 1, 1 >> >>), EmptyStyle, << >>)
Curve == Feature(CircularString, EmptyStyle, << >>)
Untransformed == [GoodPoint EXCEPT !.transform_error = TRUE]

\* A layer of an imported data source.
ImportLayer(name, srs, features) ==
    [null |-> FALSE, name |-> name, srs |-> srs,
     features |-> [i \in 1..Len(features) |-> [features[i] EXCEPT !.srs = srs]],
     has_extent |-> TRUE, fast_extent |-> TRUE,
     extent |-> [lo |-> << 0, 0 >>, hi |-> << 4, 4 >>],
     extent_transform_error |-> FALSE]

ImportLayers ==
    { ImportLayer("a", 3, << EmptyPoint, GoodPoint >>),
      ImportLayer("b", 3, << Curve, ShortLine, GoodLine >>),
      ImportLayer("c", 3, << Untransformed, GoodPoint >>),
      ImportLayer("d", 5, << GoodPoint, GoodLine >>),
      ImportLayer("track_points", 3, << GoodPoint >>),
      [ImportLayer("", Null, << >>) EXCEPT !.null = TRUE],
      ImportLayer("e", Null, << EmptyPoint, GoodPoint >>),
      [ImportLayer("f", 6, << GoodPoint >>) EXCEPT !.extent_transform_error = TRUE] }

ImportedDataSources == UNION { [1..n -> ImportLayers] : n \in 0..MaxImportLayers }

InitRun ==
    /\ InitCaches
    /\ InitCounters
    /\ InitLayers
    /\ data_source \in ImportedDataSources
    /\ to_map_coord = "fromProjected"
    /\ georef \in { LocalGeoref, ProjectedGeoref }
    /\ map_srs = Null
    /\ unit_type = "UnitOnGround"
    /\ clip_layers \in BOOLEAN
    /\ driver_name = "GPX"

NextRun ==
    \/ ImportOpenFailed
    \/ \E enabled \in BOOLEAN : ImportBegin(enabled)
    \/ ImportLayerSkipped
    \/ ImportLayerEntered
    \/ \E outcome \in ClipOutcomes : ImportFeatureStep(outcome)
    \/ ImportLayerLeft
    \/ ImportFinished

SpecRun == InitRun /\ [][NextRun]_vars

\* The layers of a data source imported with the option "Separate layers":
\* layers with objects, a layer whose only feature has an empty geometry, a
\* layer without features, the track points, and a missing layer.
PartLayers ==
    { ImportLayer("a", 3, << GoodPoint >>),
      ImportLayer("b", 3, << GoodLine, GoodPoint >>),
      ImportLayer("c", 3, << EmptyPoint >>),
      ImportLayer("d", 3, << >>),
      ImportLayer("track_points", 3, << GoodPoint >>),
      [ImportLayer("", Null, << >>) EXCEPT !.null = TRUE] }

\* The layers of such a data source.
MaxPartLayers == 3

InitParts ==
    /\ InitCaches
    /\ InitCounters
    /\ InitNoExport
    /\ InitIdleImport
    /\ separate_layers \in BOOLEAN
    /\ map_part = << >>
    /\ data_source \in UNION { [1..n -> PartLayers] : n \in 0..MaxPartLayers }
    /\ to_map_coord = "fromProjected"
    /\ georef = ProjectedGeoref
    /\ map_srs = Null
    /\ unit_type = "UnitOnGround"
    /\ clip_layers = FALSE
    /\ driver_name = "GPX"

SpecParts == InitParts /\ [][NextRun]_vars

----------------------------------------------------------------------------
(* setSRS over the geometries of one layer, each with an SRS of its own.    *)

\* OGR_G_GetSpatialReference of the geometries: none, the SRS of the map,
\* another SRS with a transformation, and one without.
GeometrySrs == { Null, 2, 3, 5 }

SrsFeatures ==
    { [f EXCEPT !.srs = srs] : f \in { GoodPoint, GoodLine }, srs \in GeometrySrs }
    \cup { [Untransformed EXCEPT !.srs = srs] : srs \in GeometrySrs \ { Null } }

NextSrs ==
    \/ \E layer \in Layers : ImportLayerBegin(layer)
    \/ \E feature \in SrsFeatures, outcome \in ClipOutcomes :
           ImportLayerFeature(feature, outcome)
    \/ ImportLayerEnd

SpecSrs == InitLayer /\ [][NextSrs]_vars

----------------------------------------------------------------------------
(* OgrFileExport: the driver, its quirks and the georeferencing.            *)

\* A const char* id: null, or a text which starts with "OGR-export-" or
\* does not, followed by name.
FormatId(prefix, name) == [null |-> FALSE, prefix |-> prefix, name |-> name]

\* qstrlen(id): 0 for nullptr; the prefix has 11 characters.
IsEmptyId(i) == i.null \/ (~i.prefix /\ i.name = "")

\* OgrFileExport::OgrFileExport: the id without the prefix "OGR-export-";
\* nullptr when the id given is empty.
OgrFileExport(i) ==
    IF IsEmptyId(i) THEN NullId
    ELSE IF i.prefix THEN [i EXCEPT !.prefix = FALSE]
    ELSE i

\* The drivers GDAL has registered: their short names and the metadata
\* items GDAL_DCAP_VECTOR and GDAL_DCAP_CREATE.
NoDriver == [short_name |-> NullStr, vector |-> NullStr, create |-> NullStr]

GDALGetDriverByName(name) ==
    CASE name \in { "DXF", "GPX", "LIBKML", "CSV", "ESRI Shapefile" } ->
             [short_name |-> name, vector |-> "YES", create |-> "YES"]
      [] name = "GTiff" -> [short_name |-> name, vector |-> NullStr, create |-> "YES"]
      [] name = "AVCBin" -> [short_name |-> name, vector |-> "YES", create |-> NullStr]
      [] OTHER -> NoDriver

\* The driver a non-null id names.
DriverData(i) == GDALGetDriverByName(i.name)

\* A choice of the driver which does not ask for its capabilities.
SelectDriverByName(i) == IF ~i.null THEN DriverData(i) ELSE NoDriver

\* exportImplementation: the driver of the id when it is a vector driver
\* which can create data sources, nullptr otherwise.
SelectDriver(i) ==
    IF ~i.null /\ DriverData(i).vector = "YES" /\ DriverData(i).create = "YES"
    THEN DriverData(i)
    ELSE NoDriver

\* The table driver_quirks of setupQuirks.
DriverQuirks(name) ==
    CASE name \in { "ARCGEN", "BNA", "CSV", "DGN", "DGNv8", "DWG", "Geomedia", "INGRES",
                    "ODS", "OpenJUMP .jml", "REC", "SEGY", "XLS", "XLSX" } ->
             { "GeorefOptional" }
      [] name = "DXF" -> { "GeorefOptional", "SingleLayer", "UseLayerField" }
      [] name \in { "GPX", "LIBKML" } -> { "NeedsWgs84" }
      [] OTHER -> {}

\* OgrFileExport::setupQuirks.
setupQuirks(q, po_driver) == q \cup DriverQuirks(po_driver.short_name)

\* OSRNewSpatialReference(nullptr): an SRS without definition.
EmptySrs == 9

\* The map is georeferenced, with a PROJ.4 text which cannot be imported.
UnimportableGeoref == [ProjectedGeoref EXCEPT !.projected_crs = "+proj=none"]

\* setupGeoreferencing: the map has a local georeferencing only.
LocalOnly(g) == g.state = "Local" \/ ImportFromProj4(g.projected_crs) = Null

\* A setupGeoreferencing which throws for every map with a local
\* georeferencing, whatever the quirks are.
setupGeoreferencingStrict(g, q, t) ==
    [map_srs |-> IF LocalOnly(g) THEN EmptySrs ELSE ImportFromProj4(g.projected_crs),
     warnings |-> IF LocalOnly(g) THEN 1 ELSE 0,
     thrown |-> LocalOnly(g),
     transformation |->
         IF LocalOnly(g) \/ "NeedsWgs84" \notin q THEN t
         ELSE IF CanTransform(ImportFromProj4(g.projected_crs), GeographicSrs)
         THEN NewCoordinateTransformation(ImportFromProj4(g.projected_crs), GeographicSrs)
         ELSE NoTransformation]

\* OgrFileExport::setupGeoreferencing, q being the quirks: the SRS of the
\* map, a warning for each reason of a local georeferencing, the
\* exception, and the transformation to WGS84.
setupGeoreferencing(g, q, t) ==
    [map_srs |-> IF LocalOnly(g) THEN EmptySrs ELSE ImportFromProj4(g.projected_crs),
     warnings |-> IF LocalOnly(g) THEN 1 ELSE 0,
     thrown |-> LocalOnly(g) /\ "GeorefOptional" \notin q,
     transformation |->
         IF (LocalOnly(g) /\ "GeorefOptional" \notin q) \/ "NeedsWgs84" \notin q THEN t
         ELSE IF ~LocalOnly(g) /\ CanTransform(ImportFromProj4(g.projected_crs), GeographicSrs)
         THEN NewCoordinateTransformation(ImportFromProj4(g.projected_crs), GeographicSrs)
         ELSE NoTransformation]

\* Map::determineSymbolsInUse: the symbols of the objects of the map.
SymbolsInUse(symbols, objects) ==
    { s \in 1..Len(symbols) : \E i \in 1..Len(objects) : objects[i].symbol = s }

\* The symbols symbolsForExport keeps: in use, not hidden, no helper symbol.
ExportedSymbols(symbols, objects) ==
    { s \in SymbolsInUse(symbols, objects) : ~symbols[s].hidden /\ ~symbols[s].helper }

\* Symbol::lessByColorPriority: the symbol of the colour of the higher
\* priority comes first; a colour's priority is its position in the list.
lessByColorPriority(symbols, a, b) == symbols[a].color < symbols[b].color

\* OgrFileExport::symbolsForExport: the kept symbols after std::sort, which
\* leaves the order of symbols of equal priority open.
symbolsForExport(symbols, objects) ==
    { order \in [1..Cardinality(ExportedSymbols(symbols, objects))
                    -> ExportedSymbols(symbols, objects)] :
          /\ \A i, j \in DOMAIN order : i # j => order[i] # order[j]
          /\ \A i, j \in DOMAIN order :
                 i < j => ~lessByColorPriority(symbols, order[j], order[i]) }

\* exportImplementation from setupGeoreferencing on, to the definition of
\* the name field: an exception of setupGeoreferencing, or the data source
\* is created, or it is not and an exception is thrown.
ExportPrepared(s, q, created, symbols) ==
    /\ export_symbols' = IF s.thrown \/ ~created THEN export_symbols ELSE symbols
    /\ quirks' = q
    /\ map_srs' = s.map_srs
    /\ warnings' = warnings + s.warnings
    /\ transformation' = s.transformation
    /\ thrown' = IF s.thrown THEN "georeferencing" ELSE IF created THEN "none" ELSE "dataset"
    /\ po_ds' = IF s.thrown THEN po_ds ELSE IF created THEN "created" ELSE "failed"
    /\ export_pc' = IF s.thrown \/ ~created THEN "failed" ELSE "ready"
    /\ symbol_field' = IF s.thrown \/ ~created THEN symbol_field
                       ELSE IF "UseLayerField" \in q THEN "Layer" ELSE "Name"
    /\ o_name_field' = IF s.thrown \/ ~created THEN o_name_field
                       ELSE IF "UseLayerField" \in q THEN NullStr ELSE "Name"

\* exportImplementation with a driver.
ExportWithDriver(po_driver, created, symbols) ==
    ExportPrepared(setupGeoreferencing(georef, setupQuirks(quirks, po_driver), transformation),
                   setupQuirks(quirks, po_driver), created, symbols)

\* exportImplementation to the definition of the name field.  Without a
\* driver the exception is thrown at once; created is the outcome of
\* OGR_Dr_CreateDataSource.
ExportImplementation(created) ==
    /\ export_pc = "idle"
    /\ IF SelectDriver(driver_id) = NoDriver
       THEN /\ thrown' = "driver"
            /\ export_pc' = "failed"
            /\ UNCHANGED << quirks, map_srs, warnings, transformation, po_ds, symbol_field,
                            o_name_field, export_symbols >>
       ELSE \E symbols \in symbolsForExport(map_symbols, map_part) :
                ExportWithDriver(SelectDriver(driver_id), created, symbols)
    /\ UNCHANGED << symvars, obsvars, cntvars, geovars, data_srs, data_transform, applied, cfgvars,
                    docvars, data_source, format_id, driver_id, po_features,
                    per_symbol_layers, layer_pos, po_layers, runvars, layvars, impvars,
                    featvars >>

\* The ids an exporter is constructed with.
FormatIds ==
    { NullId, FormatId(FALSE, ""), FormatId(TRUE, "") }
    \cup { FormatId(p, n) : p \in BOOLEAN,
                            n \in { "DXF", "GPX", "CSV", "ESRI Shapefile", "GTiff", "AVCBin",
                                    "XLSX" } }

----------------------------------------------------------------------------
(* makeStyleString and the features of text objects.                        *)

\* QString::left / leftRef / truncate.
Left(s, n) == IF Len(s) <= n THEN s ELSE SubSeq(s, 1, n)

\* text.replace(QRegularExpression("([\"\\\\])"), "\\\\1"): a backslash is
\* put before every quotation mark and every backslash.
RECURSIVE EscapeText(_)
EscapeText(s) ==
    IF Len(s) = 0 THEN s
    ELSE (IF s[1] \in { "\"", "\\" } THEN << "\\", s[1] >> ELSE << s[1] >>)
         \o EscapeText(Tail(s))

\* QByteArray::replace(before, after): every occurrence, from the left.
RECURSIVE Replace(_, _, _)
Replace(s, before, after) ==
    IF Len(s) < Len(before) THEN s
    ELSE IF SubSeq(s, 1, Len(before)) = before
    THEN after \o Replace(SubSeq(s, Len(before) + 1, Len(s)), before, after)
    ELSE << s[1] >> \o Replace(Tail(s), before, after)

\* The width of the name field, and the longest text it takes.
NameWidth == 32

\* Georeferencing::toProjectedCoords, the inverse of toMapCoordF.
toProjectedCoords(g, c) == << c[1] + g.ref_point[1], g.ref_point[2] - c[2] >>

\* Symbol::getPlainTextName of the text symbol.
PlainTextName == << "T", "e", "x", "t" >>

\* A feature which takes no more of the text into the style than the name
\* field takes.
TextFeatureTruncated(object, name_field, field, q, t, g) ==
    [field |-> field,
     value |-> IF name_field # NullStr THEN Left(object.text, NameWidth)
               ELSE Left(PlainTextName, NameWidth),
     point |-> IF "NeedsWgs84" \in q
               THEN TransformPoint(toProjectedCoords(g, object.parts[1].coords[1]), t)
               ELSE toProjectedCoords(g, object.parts[1].coords[1]),
     style |-> IF name_field = NullStr \/ Len(object.text) > NameWidth
               THEN Replace(makeTextStyleString(map_colors, map_symbols[object.symbol]),
                            NamePlaceholder, EscapeText(Left(object.text, NameWidth)))
               ELSE makeTextStyleString(map_colors, map_symbols[object.symbol])]

\* The feature add_feature of addTextToLayer creates for a text object:
\* the field of the symbol name, which the text overwrites when there is a
\* name field; the point; the style of the symbol from the style table,
\* with the text in place of the placeholder without a name field or for a
\* long text.
TextFeature(object, name_field, field, q, t, g) ==
    [field |-> field,
     value |-> IF name_field # NullStr THEN Left(object.text, NameWidth)
               ELSE Left(PlainTextName, NameWidth),
     point |-> IF "NeedsWgs84" \in q
               THEN TransformPoint(toProjectedCoords(g, object.parts[1].coords[1]), t)
               ELSE toProjectedCoords(g, object.parts[1].coords[1]),
     style |-> IF name_field = NullStr \/ Len(object.text) > NameWidth
               THEN Replace(makeTextStyleString(map_colors, map_symbols[object.symbol]),
                            NamePlaceholder, EscapeText(object.text))
               ELSE makeTextStyleString(map_colors, map_symbols[object.symbol])]

\* One call of add_feature in addTextToLayer, for the next text object of
\* the map; when OGR_L_CreateFeature fails an exception is thrown.
AddTextToLayer(created) ==
    /\ export_pc = "ready"
    /\ Len(po_features) < Len(map_part)
    /\ IF created
       THEN /\ po_features' =
                   Append(po_features,
                          TextFeature(map_part[Len(po_features) + 1], o_name_field,
                                      symbol_field, quirks, transformation, georef))
            /\ UNCHANGED << export_pc, thrown >>
       ELSE /\ export_pc' = "failed"
            /\ thrown' = "feature"
            /\ UNCHANGED po_features
    /\ UNCHANGED << symvars, obsvars, cntvars, geovars, srsvars, cfgvars, docvars, dsvars,
                    format_id, driver_id, quirks, transformation, po_ds, symbol_field,
                    o_name_field, per_symbol_layers, export_symbols, layer_pos, po_layers,
                    runvars, layvars, impvars, featvars >>

\* exportImplementation returns after the last object.
ExportFinished ==
    /\ export_pc = "ready"
    /\ Len(po_features) = Len(map_part)
    /\ export_pc' = "done"
    /\ UNCHANGED << symvars, obsvars, cntvars, geovars, srsvars, cfgvars, docvars, dsvars,
                    format_id, driver_id, quirks, transformation, po_ds, symbol_field,
                    o_name_field, po_features, thrown, per_symbol_layers, export_symbols,
                    layer_pos, po_layers, runvars, layvars, impvars, featvars >>

\* A text of n characters after a beginning.
RECURSIVE Padded(_, _)
Padded(s, n) == IF Len(s) >= n THEN s ELSE Padded(Append(s, "x"), n)

\* The texts of the text objects of an exported map: short ones, with a
\* quotation mark and a backslash; texts of 32, of 33 and of 40 characters.
ExportTexts ==
    { << "A" >>, << "a", "\"", "\\" >>, Padded(<< "\"" >>, NameWidth),
      Padded(<< "b" >>, NameWidth + 1), Padded(<< "c", "\\" >>, NameWidth + 8) }

ExportObjects ==
    { [TextObject(default_text_symbol, << 1, 2 >>) EXCEPT !.text = t] : t \in ExportTexts }

\* Text objects of an exported map.
MaxTexts == 2

InitExport ==
    /\ InitCaches
    /\ InitCounters
    /\ InitIdle
    /\ map_part \in SeqsUpTo(ExportObjects, MaxTexts)
    /\ format_id \in FormatIds
    /\ driver_id = OgrFileExport(format_id)
    /\ quirks = {}
    /\ transformation = NoTransformation
    /\ po_ds = "none"
    /\ symbol_field = NullStr
    /\ o_name_field = NullStr
    /\ po_features = << >>
    /\ export_pc = "idle"
    /\ thrown = "none"
    /\ InitNoLayers
    /\ per_symbol_layers = FALSE
    /\ data_source = << >>
    /\ to_map_coord = "fromProjected"
    /\ georef \in { LocalGeoref, ProjectedGeoref, UnimportableGeoref }
    /\ map_srs = Null
    /\ unit_type = "UnitOnGround"
    /\ clip_layers = FALSE
    /\ driver_name = "GPX"

NextExport ==
    \/ \E created \in BOOLEAN : ExportImplementation(created)
    \/ \E created \in BOOLEAN : AddTextToLayer(created)
    \/ ExportFinished

SpecExport == InitExport /\ [][NextExport]_vars

----------------------------------------------------------------------------
(* The layers of an export and the features of the objects.                 *)

\* Symbol::getContainedTypes: the type of the symbol; the types of the
\* parts of a combined symbol.
RECURSIVE ContainedTypes(_)
ContainedTypes(sym) ==
    IF sym.type = "Combined"
    THEN UNION { ContainedTypes(sym.parts[i]) : i \in 1..Len(sym.parts) }
    ELSE { sym.type }

\* The lambdas is_point_object, is_text_object, is_line_object and
\* is_area_object of exportImplementation.
is_point_object(symbols, object) ==
    object.symbol # Null /\ "Point" \in ContainedTypes(symbols[object.symbol])

is_text_object(symbols, object) ==
    object.symbol # Null /\ "Text" \in ContainedTypes(symbols[object.symbol])

IsLineSymbol(sym) ==
    \/ sym.type = "Line"
    \/ sym.type = "Combined" /\ "Area" \notin ContainedTypes(sym)

is_line_object(symbols, object) ==
    object.symbol # Null /\ IsLineSymbol(symbols[object.symbol])

is_area_object(symbols, object) ==
    object.symbol # Null /\ "Area" \in ContainedTypes(symbols[object.symbol])

\* populateStyleTable: the style string of every symbol of the export under
\* symbolId(symbol), the id of a symbol being the symbol.
populateStyleTable(cols, symbols, export) ==
    [s \in Range(export) |-> makeStyleString(cols, symbols[s])]

\* OGR_STBL_Find(table, id): the style string, nullptr without an entry.
OGR_STBL_Find(table, id) == IF id \in DOMAIN table THEN table[id] ELSE NullText

\* The quirk NeedsWgs84: OGR_G_Transform of the points of a geometry.
TransformForQuirks(points, q, t) ==
    IF "NeedsWgs84" \in q
    THEN [i \in 1..Len(points) |-> TransformPoint(points[i], t)]
    ELSE points

\* georef.toProjectedCoords of the coordinates of a part.
ProjectedCoords(g, coords) == [i \in 1..Len(coords) |-> toProjectedCoords(g, coords[i])]

\* A feature of a layer: the object it was made for, the symbol its symbol
\* field names, the points of its geometry (the rings, for a polygon), and
\* its style string.
LayerFeature(k, symbol, type, geometry, style) ==
    [object |-> k, symbol |-> symbol, type |-> type, geometry |-> geometry, style |-> style]

\* add_feature of addPointsToLayer for object k of the map.
PointFeatures(objects, k, table, q, t, g) ==
    << LayerFeature(k, objects[k].symbol, "Point",
                    TransformForQuirks(ProjectedCoords(g, objects[k].parts[1].coords), q, t),
                    OGR_STBL_Find(table, objects[k].symbol)) >>

\* add_feature of addTextToLayer for object k of the map: the style of the
\* table, an empty one without an entry, with the text in it as TextFeature
\* puts it.
TextFeatures(objects, k, table, name_field, field, q, t, g) ==
    << LayerFeature(k, objects[k].symbol, "Point",
                    << TextFeature(objects[k], name_field, field, q, t, g).point >>,
                    IF objects[k].symbol \in DOMAIN table
                    THEN TextFeature(objects[k], name_field, field, q, t, g).style
                    ELSE << >>) >>

\* The geometry line_string of add_feature in addLinesToLayer at the end
\* of the i-th turn of the loop over the parts: created before the loop, it
\* gets the coordinates of each part added, and is transformed in each turn.
RECURSIVE line_string(_, _, _, _, _)
line_string(parts, i, q, t, g) ==
    IF i = 0 THEN << >>
    ELSE TransformForQuirks(line_string(parts, i - 1, q, t, g)
                            \o ProjectedCoords(g, parts[i].coords), q, t)

\* A line string made anew for each part.
line_string_of_part(parts, i, q, t, g) ==
    IF i = 0 THEN << >>
    ELSE TransformForQuirks(ProjectedCoords(g, parts[i].coords), q, t)

\* add_feature of addLinesToLayer for object k: a feature for each part,
\* none for a path without parts.
LineFeatures(objects, k, table, q, t, g) ==
    [i \in 1..Len(objects[k].parts) |->
        LayerFeature(k, objects[k].symbol, "LineString",
                     line_string(objects[k].parts, i, q, t, g),
                     OGR_STBL_Find(table, objects[k].symbol))]

\* OGR_G_CloseRings: the first point again at the end of an open ring.
CloseRings(points) ==
    IF Len(points) > 0 /\ points[Len(points)] # points[1]
    THEN Append(points, points[1])
    ELSE points

\* add_feature of addAreasToLayer for object k: one polygon with a closed
\* ring for each part, none for a path without parts.
AreaFeatures(objects, k, table, q, t, g) ==
    IF Len(objects[k].parts) = 0 THEN << >>
    ELSE << LayerFeature(k, objects[k].symbol, "Polygon",
                         [i \in 1..Len(objects[k].parts) |->
                             TransformForQuirks(
                                 CloseRings(ProjectedCoords(g, objects[k].parts[i].coords)),
                                 q, t)],
                         OGR_STBL_Find(table, objects[k].symbol)) >>

\* One call of addPointsToLayer, addTextToLayer, addLinesToLayer or
\* addAreasToLayer: the function and its condition, which is the symbol of
\* the object or, without a symbol, the lambda of the function.
Fill(kind, symbol) == [kind |-> kind, symbol |-> symbol]

\* The condition of a call holds for an object.
Matches(symbols, object, fill) ==
    IF fill.symbol # Null THEN object.symbol = fill.symbol
    ELSE CASE fill.kind = "points" -> is_point_object(symbols, object)
           [] fill.kind = "text"   -> is_text_object(symbols, object)
           [] fill.kind = "lines"  -> is_line_object(symbols, object)
           [] fill.kind = "areas"  -> is_area_object(symbols, object)

\* The exporter when the layers are written.
Exporter ==
    [objects |-> map_part, symbols |-> map_symbols,
     table |-> populateStyleTable(map_colors, map_symbols, export_symbols),
     name_field |-> o_name_field, field |-> symbol_field, quirks |-> quirks,
     transformation |-> transformation, georef |-> georef]

\* add_feature of the function of a call, for object k.
AddFeature(x, fill, k) ==
    CASE fill.kind = "points" ->
             PointFeatures(x.objects, k, x.table, x.quirks, x.transformation, x.georef)
      [] fill.kind = "text" ->
             TextFeatures(x.objects, k, x.table, x.name_field, x.field, x.quirks,
                          x.transformation, x.georef)
      [] fill.kind = "lines" ->
             LineFeatures(x.objects, k, x.table, x.quirks, x.transformation, x.georef)
      [] fill.kind = "areas" ->
             AreaFeatures(x.objects, k, x.table, x.quirks, x.transformation, x.georef)

\* map->applyOnMatchingObjects(add_feature, condition) from object k on.
RECURSIVE applyOnMatchingObjects(_, _, _)
applyOnMatchingObjects(x, fill, k) ==
    IF k > Len(x.objects) THEN << >>
    ELSE (IF Matches(x.symbols, x.objects[k], fill) THEN AddFeature(x, fill, k) ELSE << >>)
         \o applyOnMatchingObjects(x, fill, k + 1)

\* The features of the calls of one layer, from call i on.
RECURSIVE FillFeatures(_, _, _)
FillFeatures(x, fills, i) ==
    IF i > Len(fills) THEN << >>
    ELSE applyOnMatchingObjects(x, fills[i], 1) \o FillFeatures(x, fills, i + 1)

\* One call of createLayer with what is done with the layer: its name (a
\* fixed one, or the one of a symbol), its geometry type, the calls which
\* fill it, and whether the export needs the layer.
LayerTask(name, symbol, type, fills, needed) ==
    [name |-> name, symbol |-> symbol, type |-> type, fills |-> fills, needed |-> needed]

\* The switch over the type of a symbol for the single layer.
SingleLayerFill(symbols, s) ==
    CASE symbols[s].type = "Point" -> Fill("points", s)
      [] symbols[s].type = "Text"  -> Fill("text", s)
      [] symbols[s].type = "Line"  -> Fill("lines", s)
      [] symbols[s].type = "Combined" ->
             IF "Area" \notin ContainedTypes(symbols[s]) THEN Fill("lines", s)
             ELSE Fill("areas", s)
      [] symbols[s].type = "Area"  -> Fill("areas", s)

\* The layer of every symbol of one of the three loops over the symbols.
SymbolLayers(symbols, export, type) ==
    [i \in 1..Len(export) |->
        LayerTask("symbol", export[i], type,
                  << Fill(CASE symbols[export[i]].type = "Point" -> "points"
                            [] symbols[export[i]].type = "Text" -> "text"
                            [] type = "wkbLineString" -> "lines"
                            [] OTHER -> "areas",
                          export[i]) >>,
                  FALSE)]

IsPointOrTextSymbol(sym) == sym.type \in { "Point", "Text" }

IsAreaSymbol(sym) == "Area" \in ContainedTypes(sym)

\* The layers in another order: the areas first, the points last.
LayerTasksAreasFirst(symbols, export, q, per_symbol) ==
    IF "SingleLayer" \in q
    THEN << LayerTask("Layer", Null, "wkbUnknown",
                      [i \in 1..Len(export) |-> SingleLayerFill(symbols, export[i])],
                      TRUE) >>
    ELSE IF per_symbol
    THEN SymbolLayers(symbols, SelectSeq(export, LAMBDA s : IsAreaSymbol(symbols[s])),
                      "wkbPolygon")
         \o SymbolLayers(symbols, SelectSeq(export, LAMBDA s : IsLineSymbol(symbols[s])),
                         "wkbLineString")
         \o SymbolLayers(symbols,
                         SelectSeq(export, LAMBDA s : IsPointOrTextSymbol(symbols[s])),
                         "wkbPoint")
    ELSE << LayerTask("areas", Null, "wkbPolygon", << Fill("areas", Null) >>, FALSE),
            LayerTask("lines", Null, "wkbLineString", << Fill("lines", Null) >>, FALSE),
            LayerTask("points", Null, "wkbPoint",
                      << Fill("points", Null), Fill("text", Null) >>, FALSE) >>

\* The createLayer calls of exportImplementation in their order: the single
\* layer; with the option "Per Symbol Layers" a layer for each point and
\* text symbol, then for each line symbol, then for each area symbol;
\* otherwise the layers of the points, of the lines and of the areas.
LayerTasks(symbols, export, q, per_symbol) ==
    IF "SingleLayer" \in q
    THEN << LayerTask("Layer", Null, "wkbUnknown",
                      [i \in 1..Len(export) |-> SingleLayerFill(symbols, export[i])],
                      TRUE) >>
    ELSE IF per_symbol
    THEN SymbolLayers(symbols,
                      SelectSeq(export, LAMBDA s : IsPointOrTextSymbol(symbols[s])),
                      "wkbPoint")
         \o SymbolLayers(symbols, SelectSeq(export, LAMBDA s : IsLineSymbol(symbols[s])),
                         "wkbLineString")
         \o SymbolLayers(symbols, SelectSeq(export, LAMBDA s : IsAreaSymbol(symbols[s])),
                         "wkbPolygon")
    ELSE << LayerTask("points", Null, "wkbPoint",
                      << Fill("points", Null), Fill("text", Null) >>, FALSE),
            LayerTask("lines", Null, "wkbLineString", << Fill("lines", Null) >>, FALSE),
            LayerTask("areas", Null, "wkbPolygon", << Fill("areas", Null) >>, FALSE) >>

\* A layer of the data source.
Layer(task, features) ==
    [name |-> task.name, symbol |-> task.symbol, type |-> task.type, features |-> features]

\* The first OGR_L_CreateFeature calls which can fail.
MaxFailAt == 1

\* The next createLayer call of exportImplementation and the calls which
\* fill the layer.  Without a layer (created is FALSE) there is a warning,
\* and an exception when it is the single layer.  The fail_at-th call of
\* OGR_L_CreateFeature fails, none with 0: the features before it are in
\* the layer and an exception is thrown.
ExportLayerTask(task, features, created, fail_at) ==
    /\ layer_pos' = layer_pos + 1
    /\ warnings' = IF created THEN warnings ELSE warnings + 1
    /\ po_layers' =
           IF ~created THEN po_layers
           ELSE Append(po_layers,
                       Layer(task, IF fail_at \in 1..Len(features)
                                   THEN SubSeq(features, 1, fail_at - 1)
                                   ELSE features))
    /\ thrown' = IF ~created /\ task.needed THEN "layer"
                 ELSE IF created /\ fail_at \in 1..Len(features) THEN "feature"
                 ELSE thrown
    /\ export_pc' = IF \/ ~created /\ task.needed
                       \/ created /\ fail_at \in 1..Len(features)
                    THEN "failed"
                    ELSE export_pc

ExportLayer(created, fail_at) ==
    /\ export_pc = "ready"
    /\ layer_pos < Len(LayerTasks(map_symbols, export_symbols, quirks, per_symbol_layers))
    /\ ExportLayerTask(
           LayerTasks(map_symbols, export_symbols, quirks, per_symbol_layers)[layer_pos + 1],
           FillFeatures(Exporter,
                        LayerTasks(map_symbols, export_symbols, quirks,
                                   per_symbol_layers)[layer_pos + 1].fills, 1),
           created, fail_at)
    /\ UNCHANGED << symvars, obsvars, cntvars, geovars, srsvars, cfgvars, docvars, data_source,
                    format_id, driver_id, quirks, transformation, po_ds, symbol_field,
                    o_name_field, po_features, per_symbol_layers, export_symbols,
                    runvars, layvars, impvars, featvars >>

\* exportImplementation returns true after the last layer.
ExportReturns ==
    /\ export_pc = "ready"
    /\ layer_pos = Len(LayerTasks(map_symbols, export_symbols, quirks, per_symbol_layers))
    /\ export_pc' = "done"
    /\ UNCHANGED << symvars, obsvars, cntvars, geovars, srsvars, cfgvars, docvars, dsvars,
                    format_id, driver_id, quirks, transformation, po_ds, symbol_field,
                    o_name_field, po_features, thrown, per_symbol_layers, export_symbols,
                    layer_pos, po_layers, runvars, layvars, impvars, featvars >>

\* The symbols of an exported map: a point, a text, a line and an area
\* symbol, a hidden line symbol, a helper point symbol, a combined symbol
\* with an area in it and one of lines only.
LayerSymbols ==
    << [NoSymbol EXCEPT !.type = "Point", !.color = 1],
       [NoSymbol EXCEPT !.type = "Text", !.color = 2, !.font_size = DefaultFontSize],
       [NoSymbol EXCEPT !.type = "Line", !.color = 1, !.width = 100],
       [NoSymbol EXCEPT !.type = "Area", !.color = 2],
       [NoSymbol EXCEPT !.type = "Line", !.color = 2, !.width = 250, !.hidden = TRUE],
       [NoSymbol EXCEPT !.type = "Point", !.color = 1, !.helper = TRUE],
       [NoSymbol EXCEPT !.type = "Combined", !.color = 2,
                        !.parts = << [NoSymbol EXCEPT !.type = "Line", !.color = 1,
                                                      !.width = 100],
                                     [NoSymbol EXCEPT !.type = "Area", !.color = 2] >>],
       [NoSymbol EXCEPT !.type = "Combined", !.color = 1,
                        !.parts = << [NoSymbol EXCEPT !.type = "Line", !.color = 1,
                                                      !.width = 100],
                                     [NoSymbol EXCEPT !.type = "Line", !.color = 2,
                                                      !.width = 250] >>] >>

\* A path object of a symbol with the parts given.
PathOfParts(symbol, parts) ==
    [PathObject(symbol) EXCEPT
        !.parts = [i \in 1..Len(parts) |-> [coords |-> parts[i], closed |-> FALSE]]]

\* The objects of an exported map: a point, a text, lines of one part and
\* of two parts, an area, a line of the hidden symbol, a point of the
\* helper symbol, paths of the combined symbols.
LayerObjects ==
    { PointObject(1, << 1, 2 >>),
      [TextObject(2, << 3, 1 >>) EXCEPT !.text = << "A" >>],
      PathOfParts(3, << << << 1, 1 >>, << 3, 1 >> >> >>),
      PathOfParts(3, << << << 1, 1 >>, << 3, 1 >> >>, << << 3, 4 >>, << 1, 4 >> >> >>),
      PathOfParts(4, << << << 1, 1 >>, << 3, 1 >>, << 3, 4 >> >> >>),
      PathOfParts(5, << << << 1, 1 >>, << 3, 4 >> >> >>),
      PointObject(6, << 3, 4 >>),
      PathOfParts(7, << << << 1, 1 >>, << 3, 1 >>, << 3, 4 >>, << 1, 1 >> >> >>),
      PathOfParts(8, << << << 1, 4 >>, << 3, 4 >> >> >>) }

\* The objects of an exported map.
MaxLayerObjects == 2

\* A georeferenced map whose coordinates the transformation to WGS84 moves.
TransverseGeoref == [ProjectedGeoref EXCEPT !.projected_crs = "+proj=tmerc"]

InitExportLayers ==
    /\ map_colors = InitColors
    /\ map_symbols = LayerSymbols
    /\ InitEmptyCaches
    /\ InitCounters
    /\ InitIdle
    /\ map_part \in SeqsUpTo(LayerObjects, MaxLayerObjects)
    /\ format_id \in { FormatId(TRUE, n) : n \in { "DXF", "GPX", "ESRI Shapefile" } }
    /\ driver_id = OgrFileExport(format_id)
    /\ quirks = {}
    /\ transformation = NoTransformation
    /\ po_ds = "none"
    /\ symbol_field = NullStr
    /\ o_name_field = NullStr
    /\ po_features = << >>
    /\ export_pc = "idle"
    /\ thrown = "none"
    /\ InitNoLayers
    /\ per_symbol_layers \in BOOLEAN
    /\ data_source = << >>
    /\ to_map_coord = "fromProjected"
    /\ georef \in { ProjectedGeoref, TransverseGeoref }
    /\ map_srs = Null
    /\ unit_type = "UnitOnGround"
    /\ clip_layers = FALSE
    /\ driver_name = "GPX"

NextExportLayers ==
    \/ \E created \in BOOLEAN : ExportImplementation(created)
    \/ \E created \in BOOLEAN, fail_at \in 0..MaxFailAt : ExportLayer(created, fail_at)
    \/ ExportReturns

SpecExportLayers == InitExportLayers /\ [][NextExportLayers]_vars

\* The borders of the line symbols of an exported map.
Borders ==
    { [color |-> c, width |-> w, shift |-> sh, dashed |-> d] :
          c \in { 1, 2 }, w \in { 0, 150 }, sh \in { 0, 250 }, d \in BOOLEAN }

\* Line symbols with a main line of a width or of none, and with borders
\* which are the same or different on the two sides.
BorderedLineSymbols ==
    { [NoSymbol EXCEPT !.type = "Line", !.color = 1, !.width = w, !.has_border = b,
                       !.border = l, !.right_border = r] :
          w \in { 0, 100 }, b \in BOOLEAN, l \in Borders, r \in Borders }

\* The export of a map with one line object of a line symbol with borders.
InitExportBorders ==
    /\ map_colors = InitColors
    /\ \E sym \in BorderedLineSymbols : map_symbols = << sym >>
    /\ InitEmptyCaches
    /\ InitCounters
    /\ InitIdle
    /\ map_part = << PathOfParts(1, << << << 1, 1 >>, << 3, 1 >> >> >>) >>
    /\ format_id = FormatId(TRUE, "ESRI Shapefile")
    /\ driver_id = OgrFileExport(format_id)
    /\ quirks = {}
    /\ transformation = NoTransformation
    /\ po_ds = "none"
    /\ symbol_field = NullStr
    /\ o_name_field = NullStr
    /\ po_features = << >>
    /\ export_pc = "idle"
    /\ thrown = "none"
    /\ InitNoLayers
    /\ per_symbol_layers \in BOOLEAN
    /\ data_source = << >>
    /\ to_map_coord = "fromProjected"
    /\ georef = ProjectedGeoref
    /\ map_srs = Null
    /\ unit_type = "UnitOnGround"
    /\ clip_layers = FALSE
    /\ driver_name = "GPX"

SpecExportBorders == InitExportBorders /\ [][NextExportLayers]_vars

----------------------------------------------------------------------------
(* Clipping of point and text objects.                                      *)

\* A coordinate lies inside the rectangle a clipping boundary describes.
InsideBoundary(p, boundary) ==
    /\ \E i \in 1..Len(boundary) : boundary[i][1] <= p[1]
    /\ \E i \in 1..Len(boundary) : boundary[i][1] >= p[1]
    /\ \E i \in 1..Len(boundary) : boundary[i][2] <= p[2]
    /\ \E i \in 1..Len(boundary) : boundary[i][2] >= p[2]

Untagged(object) == [object EXCEPT !.tags = << >>]

\* The objects the last importFeature call added to the map part.
AddedObjects ==
    { Untagged(map_part[j]) : j \in (last_feature.part_before + 1)..Len(map_part) }

IsPointOrText(object) == object.type \in { "Point", "Text" }

\* C9: when a feature is imported with a clipping boundary, a point or text
\* object of the feature is in the clipped objects if and only if its first
\* coordinate lies inside the boundary, and only then it is added to the
\* map part; the map part never holds a point or text object whose first
\* coordinate lies outside the boundary.
C9_ClippedPointsInside ==
    /\ last_feature.clipping # NoClipping =>
           \A i \in 1..Len(last_feature.imported) :
               IsPointOrText(last_feature.imported[i]) =>
                   /\ last_feature.imported[i] \in Range(last_feature.clipped)
                          <=> InsideBoundary(last_feature.imported[i].parts[1].coords[1],
                                             last_feature.clipping)
                   /\ Untagged(last_feature.imported[i]) \in AddedObjects
                          <=> InsideBoundary(last_feature.imported[i].parts[1].coords[1],
                                             last_feature.clipping)
    /\ clipping # NoClipping =>
           \A j \in 1..Len(map_part) :
               IsPointOrText(map_part[j]) =>
                   InsideBoundary(map_part[j].parts[1].coords[1], clipping)

\* A feature with one point inside the boundary, which was kept and added,
\* and one point outside of it whose extent reaches into the boundary,
\* which was dropped.
C9_Witness ==
    /\ last_feature.clipping # NoClipping
    /\ \E i, j \in 1..Len(last_feature.imported) :
           /\ IsPointOrText(last_feature.imported[i])
           /\ IsPointOrText(last_feature.imported[j])
           /\ InsideBoundary(last_feature.imported[i].parts[1].coords[1],
                             last_feature.clipping)
           /\ last_feature.imported[i] \in Range(last_feature.clipped)
           /\ Untagged(last_feature.imported[i]) \in AddedObjects
           /\ ~InsideBoundary(last_feature.imported[j].parts[1].coords[1],
                              last_feature.clipping)
           /\ intersects(getExtent(last_feature.imported[j]),
                         getPathExtent(last_feature.clipping))
           /\ last_feature.imported[j] \notin Range(last_feature.clipped)

----------------------------------------------------------------------------
(* The projected reference of the map.                                      *)

\* Layer i has a projected SRS which can be transformed.
ProjectedReachable(i) ==
    /\ data_source[i].srs # Null
    /\ ~Srs(data_source[i].srs).local
    /\ Srs(data_source[i].srs).projected
    /\ CanTransform(data_source[i].srs, OrthographicSrs)

\* Layer i has a projected SRS which can be transformed and has a PROJ.4
\* text.
ProjectedExportable(i) ==
    ProjectedReachable(i) /\ Srs(data_source[i].srs).proj4 # NullStr

\* Every layer has no SRS, a local one, or one which can be transformed.
NoUnreachable ==
    \A i \in 1..Len(data_source) :
        \/ data_source[i].srs = Null
        \/ Srs(data_source[i].srs).local
        \/ CanTransform(data_source[i].srs, OrthographicSrs)

RECURSIVE Flatten(_, _)
Flatten(seqs, i) == IF i > Len(seqs) THEN << >> ELSE seqs[i] \o Flatten(seqs, i + 1)

SupportedTypes ==
    { "Point", "LineString", "Polygon", "MultiPoint", "MultiLineString", "MultiPolygon",
      "GeometryCollection" }

\* The vertices of a geometry; with supported_only, those of points, line
\* strings, polygons and collections only.
RECURSIVE VerticesOf(_, _)
VerticesOf(geometry, supported_only) ==
    IF supported_only /\ geometry.type \notin SupportedTypes THEN << >>
    ELSE geometry.points
         \o Flatten([i \in 1..Len(geometry.geoms) |->
                         VerticesOf(geometry.geoms[i], supported_only)], 1)

\* The vertices of a feature of a layer with the SRS from in the SRS to:
\* none for an empty geometry or one which cannot be transformed.
FeatureVertices(feature, from, to, supported_only) ==
    IF IsEmpty(feature.geometry) \/ feature.transform_error THEN << >>
    ELSE [k \in 1..Len(VerticesOf(feature.geometry, supported_only)) |->
             TransformPoint(VerticesOf(feature.geometry, supported_only)[k],
                            [from |-> from, to |-> to])]

\* The vertices of all transformable features of the data source in srs.
TransformableVertices(srs, supported_only) ==
    Flatten([i \in 1..Len(data_source) |->
                IF data_source[i].srs = Null \/ ~CanTransform(data_source[i].srs, srs)
                THEN << >>
                ELSE Flatten([j \in 1..Len(data_source[i].features) |->
                                 FeatureVertices(data_source[i].features[j],
                                                 data_source[i].srs, srs, supported_only)],
                             1)],
            1)

RECURSIVE SumCoord(_, _, _)
SumCoord(vertices, k, i) ==
    IF i > Len(vertices) THEN 0 ELSE vertices[i][k] + SumCoord(vertices, k, i + 1)

Abs(n) == IF n < 0 THEN -n ELSE n

\* r is sum / n rounded to the nearest integer, halves away from zero.
IsRounded(r, sum, n) ==
    \/ 2 * Abs(n * r - sum) < n
    \/ 2 * Abs(n * r - sum) = n /\ Abs(n * r) > Abs(sum)

\* The projected reference point is the rounded average of the vertices.
RefPointIsRoundedAverage(vertices) ==
    Len(vertices) > 0 =>
        /\ IsRounded(georef.ref_point[1], SumCoord(vertices, 1, 1), Len(vertices))
        /\ IsRounded(georef.ref_point[2], SumCoord(vertices, 2, 1), Len(vertices))

\* The first layer with a projected SRS with a PROJ.4 text.
FirstExportable ==
    CHOOSE i \in 1..Len(data_source) :
        ProjectedExportable(i) /\ \A j \in 1..(i - 1) : ~ProjectedExportable(j)

\* C10 as stated: when at least one layer has a projected SRS which can be
\* transformed, and the others have none, a local one or one which can be
\* transformed, importGeoreferencing selects a projected SRS of a layer as
\* the SRS of the map, sets the projected CRS of the map from it, and sets
\* the projected reference point to the rounded average of all vertices of
\* all transformable features.
C10_ProjectedReferenceSelected ==
    ( /\ pc \in { "georeferenced", "failed" }
      /\ \E i \in 1..Len(data_source) : ProjectedReachable(i)
      /\ NoUnreachable )
    => /\ pc = "georeferenced"
       /\ \E i \in 1..Len(data_source) :
              ProjectedReachable(i) /\ map_srs = data_source[i].srs
       /\ georef.state = "Geospatial"
       /\ georef.projected_crs = Srs(map_srs).proj4
       /\ RefPointIsRoundedAverage(TransformableVertices(map_srs, FALSE))

\* C10: when at least one layer has a projected SRS which can be
\* transformed and has a PROJ.4 text, and the others have none, a local one
\* or one which can be transformed, importGeoreferencing selects the first
\* such SRS as the SRS of the map, sets the projected CRS of the map to its
\* PROJ.4 text, and sets the projected reference point to the rounded
\* average of all vertices of the points, line strings, polygons and
\* collections of all transformable features.
C10_ExportableProjectedReferenceSelected ==
    ( /\ pc \in { "georeferenced", "failed" }
      /\ \E i \in 1..Len(data_source) : ProjectedExportable(i)
      /\ NoUnreachable )
    => /\ pc = "georeferenced"
       /\ map_srs = data_source[FirstExportable].srs
       /\ georef.state = "Geospatial"
       /\ georef.crs_id = "PROJ.4"
       /\ georef.projected_crs = Srs(map_srs).proj4
       /\ RefPointIsRoundedAverage(TransformableVertices(map_srs, TRUE))

\* Three layers, without SRS, with a local SRS and with a projected SRS with
\* a PROJ.4 text, in this order; the average of the vertices is not a whole
\* number.
C10_Witness ==
    /\ pc = "georeferenced"
    /\ Len(data_source) = 3
    /\ data_source[1].srs = Null
    /\ data_source[2].srs # Null
    /\ Srs(data_source[2].srs).local
    /\ ProjectedExportable(3)
    /\ map_srs = data_source[3].srs
    /\ Len(TransformableVertices(map_srs, TRUE)) > 1
    /\ SumCoord(TransformableVertices(map_srs, TRUE), 2, 1)
           % Len(TransformableVertices(map_srs, TRUE)) # 0

----------------------------------------------------------------------------
(* The import without a suitable reference.                                 *)

\* Layer i has an SRS which is not local.
NonLocal(i) == data_source[i].srs # Null /\ ~Srs(data_source[i].srs).local

\* C11: importGeoreferencing throws if and only if at least one layer has an
\* SRS which is not local, none of these can be transformed to the
\* orthographic SRS, and no layer has a local SRS; in every other case it
\* returns an SRS for the map.
C11_ThrowsWithoutSuitableReference ==
    pc \in { "georeferenced", "failed" } =>
        /\ pc = "failed" <=>
               /\ \E i \in 1..Len(data_source) : NonLocal(i)
               /\ \A i \in 1..Len(data_source) :
                      NonLocal(i) => ~CanTransform(data_source[i].srs, OrthographicSrs)
               /\ \A i \in 1..Len(data_source) :
                      data_source[i].srs # Null => ~Srs(data_source[i].srs).local
        /\ pc = "georeferenced" => map_srs # Null

\* The import failed for a layer with an SRS which cannot be transformed,
\* next to a layer without SRS.
C11_Witness ==
    /\ pc = "failed"
    /\ Len(data_source) >= 2
    /\ \E i \in 1..Len(data_source) : data_source[i].srs = Null
    /\ \E i \in 1..Len(data_source) :
           NonLocal(i) /\ ~CanTransform(data_source[i].srs, OrthographicSrs)

----------------------------------------------------------------------------
(* The tags of an imported object.                                          *)

\* The value of the tag with the key, which the tags contain.
TagValue(tags, key) == tags[CHOOSE i \in 1..Len(tags) : tags[i][1] = key][2]

\* The fields of the last feature which are not empty.
NonEmptyFields ==
    { f \in Range(last_feature.feature.fields) : Len(f.value) > 0 }

\* The j-th object the last importFeature call added to the map part.
AddedObject(j) == map_part[last_feature.part_before + j]

----------------------------------------------------------------------------
(* Recoverable failures of features during an import.                       *)

\* The features of layer l up to feature f - 1, as << layer, feature >>.
FeaturesBefore(l, f) == [i \in 1..(f - 1) |-> << l, i >>]

\* The features of the layers before layer l which are not skipped.
RECURSIVE LayersBefore(_, _)
LayersBefore(ds, l) ==
    IF l <= 1 THEN << >>
    ELSE LayersBefore(ds, l - 1)
         \o (IF IsSkipped(ds[l - 1]) THEN << >>
             ELSE FeaturesBefore(l - 1, Len(ds[l - 1].features) + 1))

\* The data source was opened, and the SRS of the map was determined.
InLayers == pc = "layers"
InFeatures == pc = "features"
Succeeded == pc = "done" /\ import_result # "false"

ReportedOnce ==
    /\ \A i, j \in 1..Len(reported) : reported[i] = reported[j] => i = j
    /\ Range(reported) = { c \in Range(CounterNames) : Counters[c] # 0 }

----------------------------------------------------------------------------
(* The counters of features which could not be transformed.                 *)

\* The loop of importLayer is at a feature; this step is its iteration.
AtFeature == pc = "features" /\ fpos <= Len(cur_layer.features)

\* The feature is skipped because no transformation from its SRS to the
\* SRS of the map can be built.
SkippedWithoutTransformation(feature) ==
    /\ ~IsEmpty(feature.geometry)
    /\ feature.srs # Null
    /\ feature.srs # data_srs
    /\ ~CanTransform(feature.srs, map_srs)

\* The feature is skipped because applying the transformation fails.
SkippedInTransformation(feature) ==
    /\ ~IsEmpty(feature.geometry)
    /\ feature.srs # Null
    /\ ~SkippedWithoutTransformation(feature)
    /\ feature.transform_error

OneIf(b) == IF b THEN 1 ELSE 0

\* C14: from the start of the loop over the layers, where both counters
\* are zero, no_transformation advances by one in exactly the steps which
\* skip a feature for want of a transformation, and failed_transformation
\* by one in exactly the steps which skip a feature whose transformation
\* fails; so at the end of the import each counter is the number of these
\* features, with and without clipping of the layers.
C14_CountersCountSkippedFeatures ==
    [][/\ (pc = "idle" /\ pc' = "layers")
          => no_transformation' = 0 /\ failed_transformation' = 0
       /\ (pc \in { "layers", "features" })
          => /\ no_transformation' = no_transformation
                 + OneIf(AtFeature /\ SkippedWithoutTransformation(cur_layer.features[fpos]))
             /\ failed_transformation' = failed_transformation
                 + OneIf(AtFeature /\ SkippedInTransformation(cur_layer.features[fpos]))]_vars

----------------------------------------------------------------------------
(* The cached transformation of setSRS.                                     *)

\* The last feature of the loop of importLayer came with a geometry, so
\* importFeature called setSRS with its SRS.
AfterSetSRS == last_feature # NoFeature /\ ~IsEmpty(last_feature.feature.geometry)

\* C20: setSRS builds a transformation at most once, and only for an SRS
\* which is not null and is not the SRS of the data; after a transformation
\* was built with success its SRS is the SRS of the data, so that in a run
\* of features with one SRS no feature after the first success builds a
\* transformation again.
C20_TransformationBuiltOnce ==
    AfterSetSRS =>
        /\ last_feature.built <= 1
        /\ last_feature.built = 1 => /\ last_feature.feature.srs # Null
                                     /\ last_feature.feature.srs # last_feature.srs_before
        /\ last_feature.feature.srs = last_feature.srs_before => last_feature.built = 0
        /\ (pc = "features" /\ fpos > 1 /\ last_feature.feature.srs # Null
            /\ CanTransform(last_feature.feature.srs, map_srs))
           => data_srs = last_feature.feature.srs

\* The third feature of a layer is imported with the transformation which
\* was built for the first one.
C20_Witness ==
    /\ AfterSetSRS
    /\ pc = "features"
    /\ fpos = 4
    /\ ~clip_layers
    /\ last_feature.feature.srs # Null
    /\ last_feature.feature.srs = last_feature.srs_before
    /\ last_feature.built = 0
    /\ data_transform.from = last_feature.feature.srs
    /\ Len(last_feature.imported) > 0

----------------------------------------------------------------------------
(* The anchor of a label.                                                   *)

VerticalAlignments == << "AlignBaseline", "AlignVCenter", "AlignTop", "AlignBottom" >>
HorizontalAlignments == << "AlignLeft", "AlignHCenter", "AlignRight" >>

\* The anchor importPointGeometry reads from the description of the symbol
\* of an imported text object.
AnchorOf(object) == ToInt(Mid(map_symbols[object.symbol].description, 1, 2))

\* The text objects of the last importGeometry call.
ImportedTexts == { o \in Range(last_geom.objects) : o.type = "Text" }

\* C19: for every anchor a in 1..12, applyLabelAnchor sets the vertical
\* alignment of row (a - 1) / 3 (baseline, centre, top, bottom) and the
\* horizontal alignment of column (a - 1) % 3 (left, centre, right); the
\* anchor of every imported text object is a number in 1..12, and the
\* alignments of the object are the ones of this anchor, never the ones of
\* an unreachable branch.
C19_AnchorSetsAlignment ==
    /\ \A a \in 1..12 :
           /\ applyLabelAnchor(a, TextObject(1, << 0, 0 >>)).v_align
                  = VerticalAlignments[((a - 1) \div 3) + 1]
           /\ applyLabelAnchor(a, TextObject(1, << 0, 0 >>)).h_align
                  = HorizontalAlignments[((a - 1) % 3) + 1]
    /\ \A o \in ImportedTexts :
           /\ AnchorOf(o).ok
           /\ AnchorOf(o).value \in 1..12
           /\ o.v_align = VerticalAlignments[((AnchorOf(o).value - 1) \div 3) + 1]
           /\ o.h_align = HorizontalAlignments[((AnchorOf(o).value - 1) % 3) + 1]

\* A label with an anchor beyond 12 was imported as a text object at the
\* bottom right.
C19_Witness ==
    /\ last_geom.feature = LabelFeature(MaxAnchor, << 1, 1 >>)
    /\ \E o \in ImportedTexts : /\ AnchorOf(o).value = 12
                                /\ o.v_align = "AlignBottom"
                                /\ o.h_align = "AlignRight"

----------------------------------------------------------------------------
(* Failures of an export before the data source is created.                 *)

\* exportImplementation was called.
Exported == export_pc # "idle"

\* The export has failed with an exception, and OGR_Dr_CreateDataSource
\* was not called; no feature was written.
FailedBeforeDataSource ==
    /\ export_pc = "failed"
    /\ thrown \in { "driver", "georeferencing" }
    /\ po_ds = "none"
    /\ po_features = << >>

\* The id is empty, names no driver, or names a driver which is not a
\* vector driver or cannot create data sources.
NoExportDriver ==
    \/ IsEmptyId(format_id)
    \/ GDALGetDriverByName(format_id.name) = NoDriver
    \/ GDALGetDriverByName(format_id.name).vector # "YES"
    \/ GDALGetDriverByName(format_id.name).create # "YES"

\* C15: whenever the id of the format is empty, names no driver, or names
\* a driver without the vector or the create capability,
\* exportImplementation throws a FileFormatException, and no data source
\* and no layer has been created.
C15_NoDriverFails ==
    (Exported /\ NoExportDriver) => (FailedBeforeDataSource /\ thrown = "driver")

\* An export with the id of a driver which has no vector capability has
\* failed.
C15_Witness ==
    /\ Exported
    /\ format_id = FormatId(TRUE, "GTiff")
    /\ FailedBeforeDataSource
    /\ thrown = "driver"

\* C16: an export fails with a FileFormatException before the data source
\* is created if and only if the driver is valid, the map has a local
\* georeferencing only (its state is Local, or its PROJ.4 text cannot be
\* imported) and GeorefOptional is not among the quirks of the driver; a
\* driver which is absent from the table has no quirks.
C16_FailsIffLocalOnly ==
    Exported =>
        /\ FailedBeforeDataSource
               <=> /\ ~NoExportDriver
                   /\ georef.state = "Local" \/ ImportFromProj4(georef.projected_crs) = Null
                   /\ "GeorefOptional" \notin quirks
        /\ (~NoExportDriver /\ format_id.name \notin { "DXF", "GPX", "CSV" }) => quirks = {}

\* C16, amended: an export with a valid driver fails with a
\* FileFormatException before the data source is created if and only if the
\* map has a local georeferencing only (its state is Local, or its PROJ.4
\* text cannot be imported) and GeorefOptional is not among the quirks of
\* the driver; a driver which is absent from the table has no quirks.
C16_ValidDriverFailsIffLocalOnly ==
    (Exported /\ ~NoExportDriver) =>
        /\ FailedBeforeDataSource
               <=> /\ georef.state = "Local" \/ ImportFromProj4(georef.projected_crs) = Null
                   /\ "GeorefOptional" \notin quirks
        /\ FailedBeforeDataSource => thrown = "georeferencing"
        /\ format_id.name \notin { "DXF", "GPX", "CSV" } => quirks = {}

\* An export of a map whose PROJ.4 text cannot be imported, with a driver
\* which is absent from the table, has failed.
C16_Witness ==
    /\ Exported
    /\ format_id.name = "ESRI Shapefile"
    /\ georef = UnimportableGeoref
    /\ quirks = {}
    /\ FailedBeforeDataSource
    /\ thrown = "georeferencing"

----------------------------------------------------------------------------
(* The text of a text object in the style and in the name field.            *)

\* The style of the symbol with a text in place of the placeholder, which
\* comes before the last two characters.
StyleWithText(style, text) ==
    SubSeq(style, 1, Len(style) - 2 - Len(NamePlaceholder)) \o text
    \o SubSeq(style, Len(style) - 1, Len(style))

\* C17: in every feature addTextToLayer has created, the style is the style
\* of the symbol with the complete escaped text of the object in place of
\* {Name} when there is no name field or the text has more than 32
\* characters; with a name field and a text of at most 32 characters the
\* style is the one of the symbol, with the placeholder, and the name field
\* has the text.
C17_TextInStyleOrNameField ==
    \A i \in 1..Len(po_features) :
        IF o_name_field = NullStr \/ Len(map_part[i].text) > 32
        THEN po_features[i].style
                 = StyleWithText(makeTextStyleString(map_colors, map_symbols[map_part[i].symbol]),
                                 EscapeText(map_part[i].text))
        ELSE /\ po_features[i].style = makeTextStyleString(map_colors, map_symbols[map_part[i].symbol])
             /\ StyleWithText(po_features[i].style, NamePlaceholder) = po_features[i].style
             /\ po_features[i].field = o_name_field
             /\ po_features[i].value = map_part[i].text

\* With a name field, a text of 32 characters was stored in the field, and
\* a text of 40 characters was put into the style.
C17_Witness ==
    /\ o_name_field # NullStr
    /\ Len(po_features) = 2
    /\ Len(map_part[1].text) = 32
    /\ po_features[1].value = map_part[1].text
    /\ Len(map_part[2].text) = 40
    /\ Len(po_features[2].style)
           > Len(makeTextStyleString(map_colors, map_symbols[map_part[2].symbol])) + 32


----------------------------------------------------------------------------
(* Properties of the round trip of style strings.                           *)

\* The symbols getSymbol returned for the style string of the k-th symbol.
DecodedFrom(k) ==
    IF << RoundTripSymbols[k].type, ExportedStyle(k) >> \in DOMAIN sym_ret
    THEN sym_ret[<< RoundTripSymbols[k].type, ExportedStyle(k) >>]
    ELSE {}

\* Symbol s of the map has the category and the RGB colour of the k-th symbol.
SameCategoryAndColor(k, s) ==
    /\ map_symbols[s].type = RoundTripSymbols[k].type
    /\ ~map_symbols[s].hidden
    /\ map_symbols[s].color # Null
    /\ map_colors[map_symbols[s].color].rgb = InitColors[RoundTripSymbols[k].color].rgb

SameLineWidth(k, s) ==
    RoundTripSymbols[k].type = "Line" => map_symbols[s].width = RoundTripSymbols[k].width

\* C18 as stated: decoding the style string that makeStyleString writes for
\* a point, line, area or text symbol of one solid colour, requested with
\* the symbol's category, yields a symbol of the same category and RGB
\* colour and, for a line symbol, of the same line width.
C18_RoundTrip ==
    \A k \in 1..Len(RoundTripSymbols) :
        \A s \in DecodedFrom(k) : SameCategoryAndColor(k, s) /\ SameLineWidth(k, s)

\* C18, amended: the decoded symbol has the same category and RGB colour
\* and, for a line symbol wider than 0.01 mm, the same line width.
C18_RoundTripAboveMinimumWidth ==
    \A k \in 1..Len(RoundTripSymbols) :
        \A s \in DecodedFrom(k) :
            /\ SameCategoryAndColor(k, s)
            /\ RoundTripSymbols[k].width > 10 => SameLineWidth(k, s)

\* A line symbol of 0.25 mm, a line symbol of 0.01 mm and a text symbol have
\* been written and read back, each to a symbol made for it.
C18_Witness ==
    /\ \E s \in DecodedFrom(5) : s > Len(InitSymbols) /\ map_symbols[s].width = 250
    /\ \E s \in DecodedFrom(3) : s > Len(InitSymbols) /\ map_symbols[s].width = 100
    /\ \E s \in DecodedFrom(9) : s > Len(InitSymbols) /\ map_symbols[s].type = "Text"


----------------------------------------------------------------------------
(* Properties of the cached transformation.                                 *)

\* C21: the cached transformation is the one from the cached SRS of the data
\* to the SRS of the map, and OGR_G_Transform is never called on a geometry
\* with a transformation built for another SRS than the geometry's.
C21_TransformationMatchesReference ==
    /\ data_srs = Null => data_transform = NoTransformation
    /\ data_srs # Null => data_transform = [from |-> data_srs, to |-> map_srs]
    /\ \A a \in applied :
           /\ a.transformation.from = a.srs
           /\ a.transformation.to = map_srs

\* A transformation was applied for one SRS, the construction for another
\* SRS failed, and a feature of the first SRS was transformed afterwards.
C21_Witness ==
    /\ no_transformation > 0
    /\ nfeatures = 2
    /\ last_feature.feature.srs # Null
    /\ last_feature.built = 0
    /\ Len(last_feature.imported) > 0
    /\ [srs |-> last_feature.feature.srs, transformation |-> data_transform] \in applied

----------------------------------------------------------------------------
(* Properties of the layers of an export.                                   *)

\* The layers whose features have all been written: every layer but the one
\* in which OGR_L_CreateFeature failed.
CompleteLayers ==
    { l \in 1..Len(po_layers) : thrown # "feature" \/ l < Len(po_layers) }

\* The positions of the line-string features of object k in layer l.
LineFeaturesOf(l, k) ==
    { j \in 1..Len(po_layers[l].features) :
          /\ po_layers[l].features[j].object = k
          /\ po_layers[l].features[j].type = "LineString" }

\* Feature j of layer l is the i-th line-string feature of its object.
PartOfFeature(l, j) ==
    Cardinality({ h \in LineFeaturesOf(l, po_layers[l].features[j].object) : h <= j })

\* C22: addLinesToLayer writes, for a path object with n parts, exactly n
\* features, and the line string of the i-th feature has exactly the
\* coordinates of the i-th part, each transformed once, and no coordinate of
\* another part.
C22_OneLineStringPerPart ==
    \A l \in 1..Len(po_layers) :
        /\ \A j \in 1..Len(po_layers[l].features) :
               po_layers[l].features[j].type = "LineString" =>
                   po_layers[l].features[j].geometry =
                       line_string_of_part(map_part[po_layers[l].features[j].object].parts,
                                           PartOfFeature(l, j), quirks, transformation,
                                           georef)
        /\ l \in CompleteLayers =>
               \A k \in 1..Len(map_part) :
                   LineFeaturesOf(l, k) # {} =>
                       Cardinality(LineFeaturesOf(l, k)) = Len(map_part[k].parts)

\* The number of features alone: a path of n parts has n line-string
\* features in a layer written to the end.
C22_FeaturePerPart ==
    \A l \in CompleteLayers :
        \A k \in 1..Len(map_part) :
            LineFeaturesOf(l, k) # {} =>
                Cardinality(LineFeaturesOf(l, k)) = Len(map_part[k].parts)

\* The line strings of paths of one part are the part.
C22_SinglePartLineString ==
    \A l \in 1..Len(po_layers) :
        \A j \in 1..Len(po_layers[l].features) :
            /\ po_layers[l].features[j].type = "LineString"
            /\ Len(map_part[po_layers[l].features[j].object].parts) = 1
            => po_layers[l].features[j].geometry =
                   line_string_of_part(map_part[po_layers[l].features[j].object].parts, 1,
                                       quirks, transformation, georef)

\* The place of a layer in the order points and texts, lines, areas.
LayerRank(layer) ==
    CASE layer.type = "wkbPoint" -> 1
      [] layer.type = "wkbLineString" -> 2
      [] layer.type = "wkbPolygon" -> 3
      [] OTHER -> 0

\* The layers created so far are in the order points and texts, lines,
\* areas, and the features of a layer are of the type of the layer.
LayersInOrder ==
    /\ \A i, j \in 1..Len(po_layers) :
           i < j => LayerRank(po_layers[i]) <= LayerRank(po_layers[j])
    /\ \A l \in 1..Len(po_layers) :
           \A j \in 1..Len(po_layers[l].features) :
               po_layers[l].features[j].type =
                   (CASE po_layers[l].type = "wkbPoint" -> "Point"
                      [] po_layers[l].type = "wkbLineString" -> "LineString"
                      [] po_layers[l].type = "wkbPolygon" -> "Polygon")

\* The names of the layers created.
LayerNames == [l \in 1..Len(po_layers) |-> po_layers[l].name]

\* An export with the layers of the default policy.
DefaultPolicy == "SingleLayer" \notin quirks /\ ~per_symbol_layers

\* The layers created are some of points, lines, areas, in this order.
DefaultLayersInOrder ==
    LayerNames \in { << >>, << "points" >>, << "lines" >>, << "areas" >>,
                     << "points", "lines" >>, << "points", "areas" >>,
                     << "lines", "areas" >>, << "points", "lines", "areas" >> }

\* The claim as it was made: an export without the quirk SingleLayer creates
\* the layers in the order points and texts, lines, areas, and with the
\* default policy it has created exactly the layers points, lines, areas
\* when it returns.
C23_LayersInOrderAndThreeByDefault ==
    export_pc \in { "ready", "done" } /\ "SingleLayer" \notin quirks =>
        /\ LayersInOrder
        /\ DefaultPolicy /\ export_pc = "done" =>
               LayerNames = << "points", "lines", "areas" >>

\* C23: in an export without the quirk SingleLayer the layers are created
\* and filled in the order points and texts, then lines, then areas, each
\* layer holding features of its type only; with the default policy the
\* layers created are of points, lines, areas in this order, and exactly
\* these three when the export returns and every createLayer call has
\* returned a layer.
C23_LayersInOrder ==
    export_pc \in { "ready", "done", "failed" } /\ "SingleLayer" \notin quirks =>
        /\ LayersInOrder
        /\ DefaultPolicy => DefaultLayersInOrder
        /\ DefaultPolicy /\ export_pc = "done" /\ Len(po_layers) = layer_pos =>
               LayerNames = << "points", "lines", "areas" >>

\* An export with the default policy has returned with three layers, of
\* which the points and the lines have features.
C23_Witness ==
    /\ DefaultPolicy
    /\ export_pc = "done"
    /\ Len(po_layers) = 3
    /\ Len(po_layers[1].features) > 0
    /\ Len(po_layers[2].features) > 0

\* The features of all layers.
WrittenFeatures ==
    UNION { Range(po_layers[l].features) : l \in 1..Len(po_layers) }

\* The objects of the symbols of the export which have coordinates: what
\* every policy is to export.
ObjectsOfExportedSymbols ==
    { k \in 1..Len(map_part) :
          /\ map_part[k].symbol \in ExportedSymbols(map_symbols, map_part)
          /\ Len(map_part[k].parts) > 0 }

\* Every feature written is of an object whose symbol is in use, not
\* hidden and no helper symbol, and has the style of the style table; an
\* export which returns with all its layers has written these objects.
ExportedObjectsAreOfExportedSymbols ==
    /\ \A f \in WrittenFeatures :
           /\ f.symbol = map_part[f.object].symbol
           /\ f.symbol \in ExportedSymbols(map_symbols, map_part)
           /\ f.style # NullText
    /\ export_pc = "done" /\ Len(po_layers) = layer_pos =>
           { f.object : f \in WrittenFeatures } = ObjectsOfExportedSymbols

\* C30: under each of the three layering policies every feature written
\* belongs to an object whose symbol is in the exported symbol set (in use,
\* not hidden, no helper symbol) and has a style-table entry, and the set of
\* exported objects is the same whichever policy is selected.
C30_SameObjectsUnderEveryPolicy ==
    export_pc \in { "ready", "done", "failed" } => ExportedObjectsAreOfExportedSymbols

\* The same for the single layer and the layers per symbol.
C30_SameObjectsUnlessDefaultPolicy ==
    export_pc \in { "ready", "done", "failed" } /\ ~DefaultPolicy =>
        ExportedObjectsAreOfExportedSymbols

----------------------------------------------------------------------------
(* The text, the anchor and the angle of an imported label.                 *)

\* The label of the last feature after the placeholder has been replaced
\* and the escape sequences have been stripped.
FinalLabel ==
    ReplaceCaretI(StripEscapes(
        LabelOf(last_geom.feature, LabelDescription(last_geom.feature.style.tools[1]))))

\* The last feature had a label tool with a text.
LabelImported ==
    /\ Len(last_geom.feature.style.tools) = 1
    /\ last_geom.feature.style.tools[1] \in 61..(60 + Len(LabelTools))
    /\ Tool(last_geom.feature.style.tools[1]).text # NullText

\* C24: every text object produced by importPointGeometry has a non-empty
\* text after the substitution of the placeholder and the stripping of the
\* escape sequences; a label which is empty after these steps produces no
\* object.
C24_TextObjectsHaveText ==
    /\ \A o \in ImportedTexts : Len(o.text) > 0
    /\ LabelImported /\ Len(FinalLabel) = 0 => ImportedTexts = {}

\* A label which is empty before the escape sequences are stripped
\* produces no object, and the text of a text object is the label after
\* both steps.
C24_EmptyLabelBeforeStripping ==
    LabelImported =>
        /\ Len(LabelOf(last_geom.feature,
                       LabelDescription(last_geom.feature.style.tools[1]))) = 0
               <=> ImportedTexts = {}
        /\ \A o \in ImportedTexts : o.text = FinalLabel

\* The label tool of the last feature.
LabelTool == Tool(last_geom.feature.style.tools[1])

\* The anchor getSymbolForLabel packs: the one of the tool clamped to
\* 1..12, 1 without one; and the angle: the one of the tool, 0 without one.
PackedAnchor == IF LabelTool.anchor = NullNum THEN 1 ELSE qBound(1, LabelTool.anchor, 12)
PackedAngle == IF LabelTool.angle = NullNum THEN 0 ELSE LabelTool.angle

\* The text objects of the last feature have the alignment of the anchor
\* of its label.
AnchorRecovered ==
    \A o \in ImportedTexts :
        /\ o.v_align = VerticalAlignments[((PackedAnchor - 1) \div 3) + 1]
        /\ o.h_align = HorizontalAlignments[((PackedAnchor - 1) % 3) + 1]

\* C25: the anchor and the angle which getSymbolForLabel packs into the
\* description of a text symbol are recovered unchanged by
\* importPointGeometry: the text object gets the alignment of the anchor of
\* the label, clamped to 1..12, and a rotation equal to the angle of the
\* label tool.
C25_AnchorAndAngleRecovered ==
    LabelImported =>
        /\ AnchorRecovered
        /\ \A o \in ImportedTexts : o.rotation = PackedAngle

\* The anchor is recovered, and so is an angle of one significant digit.
C25_AngleOfOneDigitRecovered ==
    LabelImported =>
        /\ AnchorRecovered
        /\ \A o \in ImportedTexts :
               PackedAngle \in { d * Pow10(e) : d \in 0..9, e \in 0..2 } =>
                   o.rotation = PackedAngle

----------------------------------------------------------------------------
(* The parts of the map after an import with separate layers.               *)

\* The number of objects which the i-th imported layer has added so far.
ObjectsOfLayer(i) ==
    (IF i < Len(layer_parts) THEN layer_parts[i + 1].start ELSE Len(map_part))
    - layer_parts[i].start

\* The objects of two layers never share a part, and a part which received
\* objects has the name of their layer.
LayersApart ==
    /\ \A i, j \in 1..Len(layer_parts) :
           /\ i # j
           /\ ObjectsOfLayer(i) > 0
           /\ ObjectsOfLayer(j) > 0
           => layer_parts[i].part # layer_parts[j].part
    /\ \A i \in 1..Len(layer_parts) :
           ObjectsOfLayer(i) > 0 =>
               part_names[layer_parts[i].part] = data_source[layer_parts[i].layer].name

\* Every part after the first has received objects.
NoEmptyPartAdded ==
    \A p \in 2..Len(part_names) :
        \E i \in 1..Len(layer_parts) : layer_parts[i].part = p /\ ObjectsOfLayer(i) > 0

\* C26: with "Separate layers", after an import the objects of two source
\* layers never share a map part, every part which received objects is
\* named after the layer they came from, and a layer which contributes no
\* object creates no additional part.
C26_OnePartPerLayerWithObjects ==
    separate_layers /\ pc = "done" => LayersApart /\ NoEmptyPartAdded

\* The first two statements alone, in every state of the import.
C26_LayersApart == separate_layers => LayersApart

\* A layer without objects adds no part unless it is the last of the layers
\* which are imported: the part it adds is the last one.
C26_EmptyPartOnlyLast ==
    separate_layers =>
        \A p \in 2..(Len(part_names) - 1) :
            \E i \in 1..Len(layer_parts) : layer_parts[i].part = p /\ ObjectsOfLayer(i) > 0

----------------------------------------------------------------------------
(* The style of a line symbol with borders.                                 *)

\* The shifts a border part can be written with.
WrittenShifts == { sh * sign : sh \in { b.shift : b \in Borders }, sign \in { -1, 1 } }

\* The style of a line symbol with the main pen and a pen for each side,
\* each with the width, the colour and the dash flag of its side.
StylesOfBothSides(cols, sym) ==
    { ChopSemicolon(MainLinePart(cols, sym) \o BorderPart(cols, sym.border, dl)
                    \o BorderPart(cols, sym.right_border, dr)) :
          dl \in WrittenShifts, dr \in WrittenShifts }

\* The features of line symbols whose two borders are visible.
BorderedFeatures ==
    { f \in WrittenFeatures :
          /\ map_symbols[f.symbol].type = "Line"
          /\ map_symbols[f.symbol].has_border
          /\ IsVisible(map_symbols[f.symbol].border)
          /\ IsVisible(map_symbols[f.symbol].right_border) }

\* C27: for a line symbol whose left and right borders are both visible,
\* makeStyleString emits the main pen clause followed by one PEN clause for
\* each border side, each with the width, the colour priority and the dash
\* flag of its own side (the right clause those of the right border),
\* joined by semicolons without one at the end.
C27_BorderClauseOfEachSide ==
    \A f \in BorderedFeatures :
        f.style \in StylesOfBothSides(map_colors, map_symbols[f.symbol])

\* The same for symbols whose borders differ in nothing but the shift.
C27_BorderClausesOfEqualSides ==
    \A f \in BorderedFeatures :
        [map_symbols[f.symbol].right_border EXCEPT !.shift = 0]
            = [map_symbols[f.symbol].border EXCEPT !.shift = 0]
        => f.style \in StylesOfBothSides(map_colors, map_symbols[f.symbol])

----------------------------------------------------------------------------
(* The ownership of the objects given to the clipping.                      *)

\* The i-th object given to process is in the list process returned.
InResult(owned, i) == \E k \in 1..Len(owned.result) : owned.result[k] = Original(i)

\* The number of times the i-th object given to process was deleted.
Deletions(owned, i) ==
    Cardinality({ k \in 1..Len(owned.deleted) : owned.deleted[k] = Original(i) })

\* C28: every object passed to ClippingImplementation::process is, when the
\* call returns, either in the result list or destroyed exactly once, never
\* both and never neither, the boolean tool returning newly created objects
\* only; when the boolean operation on an area object fails, the original
\* object is returned and not destroyed.
C28_ReturnedOrDestroyedOnce ==
    last_feature.clipping # NoClipping =>
        /\ Len(last_feature.owned.result) = Len(last_feature.clipped)
        /\ \A i \in 1..Len(last_feature.imported) :
               /\ \/ /\ InResult(last_feature.owned, i)
                     /\ Deletions(last_feature.owned, i) = 0
                  \/ /\ ~InResult(last_feature.owned, i)
                     /\ Deletions(last_feature.owned, i) = 1
               /\ Cardinality({ k \in 1..Len(last_feature.owned.result) :
                                    last_feature.owned.result[k] = Original(i) }) <= 1
               /\ i \in last_feature.owned.failed =>
                      /\ InResult(last_feature.owned, i)
                      /\ Deletions(last_feature.owned, i) = 0
        /\ \A k \in 1..Len(last_feature.owned.deleted) :
               last_feature.owned.deleted[k].copy = 0

\* The boolean tool failed for an area object of a clipped layer, and the
\* object is in the list process returned.
C28_Witness ==
    /\ last_feature.clipping # NoClipping
    /\ last_feature.owned.failed # {}
    /\ \A i \in last_feature.owned.failed :
           /\ map_symbols[last_feature.imported[i].symbol].type = "Area"
           /\ InResult(last_feature.owned, i)


----------------------------------------------------------------------------
(* The tags of the objects of one feature.                                  *)

\* The keys of the tags.
TagKeys(tags) == { tags[i][1] : i \in 1..Len(tags) }

\* The keys of the fields of the last feature which are not empty.
FieldKeys == { f.name : f \in NonEmptyFields }

\* The last importFeature call added its objects to the map part.
ObjectsAdded ==
    /\ Len(last_feature.clipped) > 0
    /\ Len(map_part) = last_feature.part_before + Len(last_feature.clipped)

\* The tags of the j-th added object are the tags of the non-empty fields
\* and the tags the object carried before.
OwnAndFieldTags(j) ==
    /\ TagKeys(AddedObject(j).tags)
           = FieldKeys \cup TagKeys(last_feature.clipped[j].tags)
    /\ \A t \in Range(last_feature.clipped[j].tags) :
           TagValue(AddedObject(j).tags, t[1]) = t[2]
    /\ \A f \in NonEmptyFields :
           ~TagsContain(last_feature.clipped[j].tags, f.name)
               => TagValue(AddedObject(j).tags, f.name) = f.value

\* C29: each object importFeature adds for a feature has exactly the tags
\* of the feature's non-empty fields and the tags it carried itself before;
\* no tag that only another object of the same feature carried is attached
\* to it.
C29_OwnAndFieldTagsOnly ==
    ObjectsAdded => \A j \in 1..Len(last_feature.clipped) : OwnAndFieldTags(j)

\* What holds of the code: the first object of a feature has exactly the
\* tags of the fields and its own, and every object has the tags of the
\* fields, its own, and those of the objects added before it for the same
\* feature.
C29_TagsOfFormerObjectsToo ==
    ObjectsAdded =>
        /\ OwnAndFieldTags(1)
        /\ \A j \in 1..Len(last_feature.clipped) :
               TagKeys(AddedObject(j).tags)
                   = FieldKeys
                     \cup UNION { TagKeys(last_feature.clipped[k].tags) : k \in 1..j }

\* A feature gave a point with a rotation tag and then an object without
\* it.
C29_PointThenLine ==
    /\ ObjectsAdded
    /\ Len(last_feature.clipped) > 1
    /\ TagKeys(last_feature.clipped[1].tags) # {}
    /\ TagKeys(last_feature.clipped[2].tags) = {}

====
